---- MODULE Spec2Model ----
(***************************************************************************)
(* Reconciliation engine of the Smart Reconciliation & Audit System:       *)
(* backend/services/reconciliationService.js with the Record,              *)
(* ReconciliationResult and AuditLog collections it reads and writes.      *)
(*                                                                         *)
(* Numbers.  Amounts are integers.  A match score is held in sixtieths     *)
(* (ScoreUnit), so that 0.95 = 57/60, 0.6 = 36/60 and every value the      *)
(* scorer can produce (tenths of a field, divided by three fields) is an   *)
(* integer.  The tolerance 0.02 is the fraction TolNum / TolDen.  A        *)
(* floating-point quotient is the record [kind, num, den]: kind "nan" for  *)
(* 0/0, "inf" for x/0 with x > 0, and "num" for the fraction num/den with  *)
(* den > 0.                                                                *)
(***************************************************************************)
EXTENDS Integers, Sequences, FiniteSets, TLC

VARIABLES records, results, auditLog, ops, resolves, call, uploadJobs, queue, files

vars ==
  <<records, results, auditLog, ops, resolves, call, uploadJobs, queue,
    files>>

(***************************************************************************)
(* Program constants                                                       *)
(***************************************************************************)
TolNum == 2
TolDen == 100
ScoreUnit == 60
FullWeight == 10
HalfWeight == 5
PartialWeight == 8
MatchedThreshold == 57
PartialThreshold == 36

exactMatchFields == <<"transactionId", "amount">>
partialMatchFields == <<"referenceNumber">>
reconciliationRules ==
  [exactMatchFields |-> exactMatchFields,
   partialMatchFields |-> partialMatchFields,
   tolerance |-> <<TolNum, TolDen>>]

fieldsToCompare ==
  <<"transactionId", "amount", "referenceNumber", "date", "description">>

(***************************************************************************)
(* Bounds of the model                                                     *)
(***************************************************************************)
MaxUploaded == 2
MaxSystem == 1
MaxResults == 2
MaxResolves == 1
MaxDup == 3

(***************************************************************************)
(* Arithmetic helpers                                                      *)
(***************************************************************************)
Abs(x) == IF x < 0 THEN 0 - x ELSE x

Max(x, y) == IF x >= y THEN x ELSE y

\* JavaScript's x / y for a numerator x >= 0.
Quot(x, y) ==
  IF y = 0
    THEN IF x = 0 THEN [kind |-> "nan", num |-> 0, den |-> 1]
                  ELSE [kind |-> "inf", num |-> 1, den |-> 0]
    ELSE IF y > 0 THEN [kind |-> "num", num |-> x, den |-> y]
                  ELSE [kind |-> "num", num |-> 0 - x, den |-> 0 - y]

\* q <= k * tolerance, as JavaScript compares: false for NaN and +Infinity.
LeqTol(q, k) ==
  /\ q.kind = "num"
  /\ q.num * TolDen <= k * TolNum * q.den


(***************************************************************************)
(* Documents.  A Record document; its date is a Date object, so the value  *)
(* of the field is the time and the object is the document's own.          *)
(***************************************************************************)
Rec(id, tx, amt, ref, date, desc, job, sys) ==
  [id |-> id, transactionId |-> tx, amount |-> amt, referenceNumber |-> ref,
   date |-> date, description |-> desc, uploadJobId |-> job,
   isSystemRecord |-> sys]

NoVariance == [kind |-> "none", num |-> 0, den |-> 1]

(***************************************************************************)
(* calculateMatchScore                                                     *)
(***************************************************************************)
\* amountContribution with the differ's denominator, max(a, b), in place
\* of the average.
amountContributionMaxDenominator(a, b) ==
  LET variance == Quot(Abs(a - b), Max(a, b))
  IN IF LeqTol(variance, 1) THEN FullWeight
     ELSE IF LeqTol(variance, 2) THEN HalfWeight
     ELSE 0

\* The amount branch of the exact-field loop: the points added to score.
amountContribution(a, b) ==
  LET diff == Abs(a - b)
      variance == Quot(2 * diff, a + b)
  IN IF LeqTol(variance, 1) THEN FullWeight
     ELSE IF LeqTol(variance, 2) THEN HalfWeight
     ELSE 0

exactFieldPoints(field, uploadedRecord, systemRecord) ==
  IF field = "amount"
    THEN amountContribution(uploadedRecord.amount, systemRecord.amount)
    ELSE IF uploadedRecord[field] = systemRecord[field] THEN FullWeight ELSE 0

\* partialFieldPoints giving a partial field the weight of an exact one.
partialFieldPointsFullWeight(field, uploadedRecord, systemRecord) ==
  IF uploadedRecord[field] = systemRecord[field] THEN FullWeight ELSE 0

partialFieldPoints(field, uploadedRecord, systemRecord) ==
  IF uploadedRecord[field] = systemRecord[field] THEN PartialWeight ELSE 0

RECURSIVE exactLoop(_, _, _)
exactLoop(i, uploadedRecord, systemRecord) ==
  IF i > Len(exactMatchFields) THEN 0
  ELSE exactFieldPoints(exactMatchFields[i], uploadedRecord, systemRecord)
       + exactLoop(i + 1, uploadedRecord, systemRecord)

RECURSIVE partialLoop(_, _, _)
partialLoop(i, uploadedRecord, systemRecord) ==
  IF i > Len(partialMatchFields) THEN 0
  ELSE partialFieldPoints(partialMatchFields[i], uploadedRecord, systemRecord)
       + partialLoop(i + 1, uploadedRecord, systemRecord)

calculateMatchScore(uploadedRecord, systemRecord) ==
  LET score == exactLoop(1, uploadedRecord, systemRecord)
               + partialLoop(1, uploadedRecord, systemRecord)
      totalFields == Len(exactMatchFields) + Len(partialMatchFields)
  IN IF totalFields > 0
       THEN (score * ScoreUnit) \div (FullWeight * totalFields)
       ELSE 0

(***************************************************************************)
(* findDifferences                                                         *)
(***************************************************************************)
\* uploadedValue !== systemValue.  Strings and numbers compare by value;
\* two Date objects are identical only when they are the same object, that
\* is, when both values were read from the same document.
strictNotEqual(field, uploadedRecord, systemRecord) ==
  IF field = "date"
    THEN uploadedRecord.id # systemRecord.id
    ELSE uploadedRecord[field] # systemRecord[field]

differenceVariance(uploadedValue, systemValue) ==
  Quot(Abs(uploadedValue - systemValue), Max(uploadedValue, systemValue))

differenceEntry(field, uploadedRecord, systemRecord) ==
  [field |-> field,
   uploadedValue |-> uploadedRecord[field],
   systemValue |-> systemRecord[field],
   variance |-> IF field = "amount"
                  THEN differenceVariance(uploadedRecord.amount,
                                          systemRecord.amount)
                  ELSE NoVariance]

RECURSIVE differencesLoop(_, _, _)
differencesLoop(i, uploadedRecord, systemRecord) ==
  IF i > Len(fieldsToCompare) THEN <<>>
  ELSE (IF strictNotEqual(fieldsToCompare[i], uploadedRecord, systemRecord)
          THEN <<differenceEntry(fieldsToCompare[i], uploadedRecord,
                                 systemRecord)>>
          ELSE <<>>)
       \o differencesLoop(i + 1, uploadedRecord, systemRecord)

findDifferences(uploadedRecord, systemRecord) ==
  differencesLoop(1, uploadedRecord, systemRecord)

(***************************************************************************)
(* determineMatchStatus                                                    *)
(***************************************************************************)
\* determineMatchStatus without its last threshold: every score below
\* 'matched' is 'partially_matched'.
determineMatchStatusNoLowerBound(score, differences, duplicateCount) ==
  IF duplicateCount > 1 THEN "duplicate"
  ELSE IF score >= MatchedThreshold THEN "matched"
  ELSE "partially_matched"

\* determineMatchStatus testing the score before the duplicate count.
determineMatchStatusScoreFirst(score, differences, duplicateCount) ==
  IF score >= MatchedThreshold THEN "matched"
  ELSE IF duplicateCount > 1 THEN "duplicate"
  ELSE IF score >= PartialThreshold THEN "partially_matched"
  ELSE "not_matched"

determineMatchStatus(score, differences, duplicateCount) ==
  IF duplicateCount > 1 THEN "duplicate"
  ELSE IF score >= MatchedThreshold THEN "matched"
  ELSE IF score >= PartialThreshold THEN "partially_matched"
  ELSE "not_matched"

(***************************************************************************)
(* Queries on the Record collection                                        *)
(***************************************************************************)
isExactMatch(uploadedRecord, r) ==
  /\ r.transactionId = uploadedRecord.transactionId
  /\ r.amount = uploadedRecord.amount
  /\ r.isSystemRecord

\* isPartialMatch with the scorer's wider band, twice the tolerance.
isPartialMatchDoubleTolerance(uploadedRecord, r) ==
  /\ r.referenceNumber = uploadedRecord.referenceNumber
  /\ r.amount * TolDen >= uploadedRecord.amount * (TolDen - 2 * TolNum)
  /\ r.amount * TolDen <= uploadedRecord.amount * (TolDen + 2 * TolNum)
  /\ r.isSystemRecord

\* amount: { $gte: amount * (1 - tolerance), $lte: amount * (1 + tolerance) }
isPartialMatch(uploadedRecord, r) ==
  /\ r.referenceNumber = uploadedRecord.referenceNumber
  /\ r.amount * TolDen >= uploadedRecord.amount * (TolDen - TolNum)
  /\ r.amount * TolDen <= uploadedRecord.amount * (TolDen + TolNum)
  /\ r.isSystemRecord

\* Lines 98-102: Record.find of the exact tier.
exactMatches(uploadedRecord) ==
  SelectSeq(records, LAMBDA r : isExactMatch(uploadedRecord, r))

\* Lines 108-115: Record.find of the partial tier.
partialMatches(uploadedRecord) ==
  SelectSeq(records, LAMBDA r : isPartialMatch(uploadedRecord, r))

\* What findSystemMatches returns when the collection is the same for its
\* two queries.
findSystemMatches(uploadedRecord) ==
  IF Len(exactMatches(uploadedRecord)) = 0
    THEN partialMatches(uploadedRecord)
    ELSE exactMatches(uploadedRecord)

(***************************************************************************)
(* An id argument is a 24-digit hex string or an ObjectId.  Model.find and *)
(* document constructors cast a string to the schema's ObjectId; an        *)
(* aggregation pipeline is sent as written, and a string equals no         *)
(* ObjectId stored in a document.                                          *)
(***************************************************************************)
IdArg(kind, hex) == [kind |-> kind, hex |-> hex]

castId(arg) == arg.hex

pipelineIdMatches(stored, arg) == arg.kind = "ObjectId" /\ stored = arg.hex

\* uploadedRecordsOf without the isSystemRecord filter.
uploadedRecordsOfAnyKind(uploadJobId) ==
  SelectSeq(records, LAMBDA r : r.uploadJobId = castId(uploadJobId))

\* Record.find({ uploadJobId, isSystemRecord: false })
uploadedRecordsOf(uploadJobId) ==
  SelectSeq(records,
            LAMBDA r : r.uploadJobId = castId(uploadJobId)
                       /\ ~r.isSystemRecord)

\* The aggregation: $match, then one group per transaction id, kept when
\* count > 1.
findDuplicates(uploadJobId) ==
  LET batch == SelectSeq(records,
                 LAMBDA r : pipelineIdMatches(r.uploadJobId, uploadJobId)
                            /\ ~r.isSystemRecord)
      ids == {batch[i].transactionId : i \in 1..Len(batch)}
      group(tx) ==
        LET members == SelectSeq(batch, LAMBDA r : r.transactionId = tx)
        IN [id |-> tx, records |-> members, count |-> Len(members)]
  IN {g \in {group(tx) : tx \in ids} : g.count > 1}

\* The duplicateCount of one uploaded record, from the cached groups.
duplicateCountOf(duplicates, uploadedRecord) ==
  LET duplicateTransactionIds == {d.id : d \in duplicates}
  IN IF uploadedRecord.transactionId \in duplicateTransactionIds
       THEN LET d == CHOOSE g \in duplicates :
                       g.id = uploadedRecord.transactionId
            IN IF d.count = 0 THEN 1 ELSE d.count
       ELSE 1

(***************************************************************************)
(* reconcileUploadJob: the work done for one uploaded record               *)
(***************************************************************************)
NoId == 0
NoUser == "null"
NoNotes == "undefined"
NoValue == [absent |-> TRUE]

\* let bestMatch = null; let bestScore = 0.  index is the place of
\* bestMatch in systemMatches, 0 for null.
initialBest == [index |-> 0, score |-> 0]

\* bestMatchLoop replacing the best candidate also on an equal score.
RECURSIVE bestMatchLoopLastWins(_, _, _, _)
bestMatchLoopLastWins(i, systemMatches, uploadedRecord, best) ==
  IF i > Len(systemMatches) THEN best
  ELSE LET score == calculateMatchScore(uploadedRecord, systemMatches[i])
       IN bestMatchLoopLastWins(i + 1, systemMatches, uploadedRecord,
                                IF score >= best.score
                                  THEN [index |-> i, score |-> score]
                                  ELSE best)

\* The loop over systemMatches: a candidate replaces the best one only when
\* its score is strictly higher.
RECURSIVE bestMatchLoop(_, _, _, _)
bestMatchLoop(i, systemMatches, uploadedRecord, best) ==
  IF i > Len(systemMatches) THEN best
  ELSE LET score == calculateMatchScore(uploadedRecord, systemMatches[i])
       IN bestMatchLoop(i + 1, systemMatches, uploadedRecord,
                        IF score > best.score
                          THEN [index |-> i, score |-> score]
                          ELSE best)

\* Lines 168-195: the best candidate of systemMatches and
\* new ReconciliationResult({...}); the schema casts uploadJobId and fills
\* the defaults.
newReconciliationResult(id, uploadedRecord, duplicateCount, systemMatches, uploadJobId) ==
  LET best == bestMatchLoop(1, systemMatches, uploadedRecord, initialBest)
      differences ==
        IF best.index # 0
          THEN findDifferences(uploadedRecord, systemMatches[best.index])
          ELSE <<>>
      matchStatus == determineMatchStatus(best.score, differences,
                                          duplicateCount)
  IN [id |-> id,
      uploadedRecordId |-> uploadedRecord.id,
      systemRecordId |-> IF best.index # 0
                           THEN systemMatches[best.index].id ELSE NoId,
      matchStatus |-> matchStatus,
      matchScore |-> best.score,
      differences |-> differences,
      uploadJobId |-> castId(uploadJobId),
      reconciliationRules |-> reconciliationRules,
      isManuallyResolved |-> FALSE,
      resolvedBy |-> NoUser,
      resolvedAt |-> "null",
      notes |-> NoNotes]

\* reconcileAuditEntry without a source: the schema's default, 'web_ui'.
reconcileAuditEntryDefaultSource(result, userId) ==
  [entityType |-> "reconciliation_result",
   entityId |-> result.id,
   action |-> "reconcile",
   userId |-> userId,
   oldValue |-> NoValue,
   newValue |-> [matchStatus |-> result.matchStatus,
                 matchScore |-> result.matchScore,
                 systemRecordId |-> result.systemRecordId],
   source |-> "web_ui"]

\* Lines 201-212.
reconcileAuditEntry(result, userId) ==
  [entityType |-> "reconciliation_result",
   entityId |-> result.id,
   action |-> "reconcile",
   userId |-> userId,
   oldValue |-> NoValue,
   newValue |-> [matchStatus |-> result.matchStatus,
                 matchScore |-> result.matchScore,
                 systemRecordId |-> result.systemRecordId],
   source |-> "system"]

countStatus(created, status) ==
  Cardinality({i \in 1..Len(created) : created[i].matchStatus = status})

(***************************************************************************)
(* Input domains                                                           *)
(***************************************************************************)
TxIds == {"T1", "T2"}
Refs == {"R1", "R2"}
Users == {"U1", "U2"}
MaxProcs == 2
MaxJobs == 2
Procs == 1..MaxProcs

\* Amounts of the scorer's and the differ's arguments: zero, a negative
\* amount, both tolerance boundaries (99 and 101, 98 and 102) and both
\* sides of each.
PureAmounts == {0 - 100, 0, 98, 99, 100, 101, 102, 103, 105}

\* seedData.js 78: every system record carries a dummy upload job id of its
\* own, new ObjectId(); that of the system record with the given id.
dummyJobId(id) == <<"J0", "J00", "J000", "J0000">>[id - 100]

\* The Record collection of the queries and of the reconciliation runs.
\* An uploaded record has amount -100, 0 or 100, as validateRecord and the
\* schema admit any number; a system record of the reconciliation runs has
\* the transaction id T1, so that it shares the id of an uploaded T1 record
\* and not of a T2 record, and an amount equal to 100, 2% above it, 3%
\* above or below it, 3% off -100, or zero.
UploadedDomain(id) ==
  {Rec(id, tx, amt, "R1", 1, "", "J1", FALSE) :
     tx \in TxIds, amt \in {0 - 100, 0, 100}}

SystemDomain(id) ==
  {Rec(id, "T1", amt, ref, 1, "", dummyJobId(id), TRUE) :
     ref \in Refs, amt \in {0 - 103, 0, 97, 100, 102, 103}}

PureUploaded ==
  {Rec(1, tx[1], amt, tx[2], 1, d, "J1", FALSE) :
     tx \in TxIds \X Refs, amt \in PureAmounts, d \in {"", "fee"}}

PureSystem ==
  {Rec(101, tx[1], amt[1], tx[2], amt[2], d, dummyJobId(101), TRUE) :
     tx \in TxIds \X Refs, amt \in PureAmounts \X {1, 2}, d \in {"", "fee"}}

\* The batch ids a caller passes: J1, the batch of the uploaded records,
\* as the string the callers pass or as an ObjectId; J0, an id that only
\* system records carry, and J2, one that no record carries, as strings.
JobArgs ==
  {IdArg(k, "J1") : k \in {"string", "ObjectId"}}
    \cup {IdArg("string", j) : j \in {"J0", "J2"}}

\* Record.js 57-60, the unique index on (transactionId, uploadJobId): no
\* two documents of a collection have the same pair.
uniqueIndexHolds(store) ==
  \A i \in 1..Len(store) : \A j \in 1..Len(store) :
    (/\ store[i].transactionId = store[j].transactionId
     /\ store[i].uploadJobId = store[j].uploadJobId) => i = j

\* Stores of the Record collection: up to maxU uploaded records of upload
\* job J1 (ids 1, 2, ...) and up to maxS system records (ids 101, ...),
\* as the unique index admits them.
RECURSIVE SeqsOver(_, _, _)
SeqsOver(D(_), base, n) ==
  IF n = 0 THEN {<<>>}
  ELSE LET shorter == SeqsOver(D, base, n - 1)
       IN shorter \cup
          {Append(s, r) : s \in {x \in shorter : Len(x) = n - 1},
                          r \in D(base + n)}

Stores(U(_), maxU, S(_), maxS) ==
  {store \in {u \o s : u \in SeqsOver(U, 0, maxU) \ {<<>>},
                        s \in SeqsOver(S, 100, maxS)} :
     uniqueIndexHolds(store)}

\* An UploadJob document: its _id, the hash of its file and its status.
UploadJob(id, fileHash, status) ==
  [id |-> id, fileHash |-> fileHash, status |-> status]

\* The UploadJob collection once the file of batch J1 has been processed
\* (and removed from the uploads directory: files holds the ids of the jobs
\* whose file is in it), and the queue with nothing to do.
StoredJobs == <<UploadJob("J1", "h1", "completed")>>

\* timers counts the setTimeout callbacks of processNext that are pending.
IdleQueue == [jobs |-> <<>>, processing |-> FALSE, timers |-> 0]

IdleOp == [kind |-> "idle", pc |-> "idle"]
NoCall == [fn |-> "none"]

(***************************************************************************)
(* The pure functions, called on arguments drawn from the domains.  call   *)
(* records one call: the function, its arguments and what it returned.     *)
(***************************************************************************)
InitPure ==
  /\ records = <<>>
  /\ results = <<>>
  /\ auditLog = <<>>
  /\ ops = [p \in Procs |-> IdleOp]
  /\ resolves = 0
  /\ call = NoCall
  /\ uploadJobs = <<>>
  /\ queue = IdleQueue
  /\ files = {}

CallCalculateMatchScore ==
  \E u \in PureUploaded, s \in PureSystem :
    /\ call = NoCall
    /\ call' = [fn |-> "calculateMatchScore", u |-> u, s |-> s,
                ret |-> calculateMatchScore(u, s)]
    /\ UNCHANGED <<records, results, auditLog, ops, resolves, uploadJobs, queue,
                 files>>

CallFindDifferences ==
  \E u \in PureUploaded, s \in PureSystem :
    /\ call = NoCall
    /\ call' = [fn |-> "findDifferences", u |-> u, s |-> s,
                ret |-> findDifferences(u, s)]
    /\ UNCHANGED <<records, results, auditLog, ops, resolves, uploadJobs, queue,
                 files>>

\* Arguments of determineMatchStatus: every score in sixtieths, a
\* differences list that is empty or not, duplicate counts 0..MaxDup.
CallDetermineMatchStatus ==
  \E score \in 0..ScoreUnit, duplicateCount \in 0..MaxDup,
     differences \in {<<>>, <<differenceEntry("referenceNumber",
                                 Rec(1, "T1", 100, "R1", 1, "", "J1", FALSE),
                                 Rec(101, "T1", 100, "R2", 1, "", "J0", TRUE))>>} :
    /\ call = NoCall
    /\ call' = [fn |-> "determineMatchStatus", score |-> score,
                differences |-> differences,
                duplicateCount |-> duplicateCount,
                ret |-> determineMatchStatus(score, differences,
                                             duplicateCount)]
    /\ UNCHANGED <<records, results, auditLog, ops, resolves, uploadJobs, queue,
                 files>>

NextPure ==
  \/ CallCalculateMatchScore
  \/ CallFindDifferences
  \/ CallDetermineMatchStatus

SpecPure == InitPure /\ [][NextPure]_vars

(***************************************************************************)
(* The queries, called on a populated Record collection                    *)
(***************************************************************************)
InitQuery ==
  /\ LET System(id) ==
           {Rec(id, tx[1], amt, tx[2], 1, "", dummyJobId(id), TRUE) :
              tx \in TxIds \X Refs, amt \in {0 - 100, 0, 100, 102, 103}}
     IN records \in Stores(UploadedDomain, MaxUploaded, System, MaxSystem)
  /\ results = <<>>
  /\ auditLog = <<>>
  /\ ops = [p \in Procs |-> IdleOp]
  /\ resolves = 0
  /\ call = NoCall
  /\ uploadJobs = StoredJobs
  /\ queue = IdleQueue
  /\ files = {}

\* findSystemMatches(uploadedRecord), lines 94-107: the exact query
\* returns; its matches are returned, or the partial query is sent.
CallFindSystemMatches ==
  \E i \in 1..Len(records) :
    /\ ~records[i].isSystemRecord
    /\ call = NoCall
    /\ call' = IF Len(exactMatches(records[i])) = 0
                 THEN [fn |-> "findSystemMatches", u |-> records[i],
                       pc |-> "partial"]
                 ELSE [fn |-> "findSystemMatches", u |-> records[i],
                       pc |-> "done", ret |-> exactMatches(records[i])]
    /\ UNCHANGED <<records, results, auditLog, ops, resolves, uploadJobs, queue,
                 files>>

\* Lines 111-120: the partial query returns and its matches are returned.
FindSystemMatchesPartial ==
  /\ call.fn = "findSystemMatches"
  /\ call.pc = "partial"
  /\ call' = [fn |-> "findSystemMatches", u |-> call.u,
              pc |-> "done", ret |-> partialMatches(call.u)]
  /\ UNCHANGED <<records, results, auditLog, ops, resolves, uploadJobs, queue,
                 files>>

CallFindDuplicates ==
  \E uploadJobId \in JobArgs :
    /\ call = NoCall
    /\ call' = [fn |-> "findDuplicates", uploadJobId |-> uploadJobId,
                ret |-> findDuplicates(uploadJobId)]
    /\ UNCHANGED <<records, results, auditLog, ops, resolves, uploadJobs, queue,
                 files>>

NextQuery ==
  \/ CallFindSystemMatches
  \/ FindSystemMatchesPartial
  \/ CallFindDuplicates

SpecQuery == InitQuery /\ [][NextQuery]_vars

(***************************************************************************)
(* Properties of the pure functions                                        *)
(***************************************************************************)
\* The fraction v = |a-b| / ((a+b)/2) compared with k times the tolerance,
\* in exact arithmetic; v exists when a + b is not zero.
VarianceLeq(a, b, k) ==
  IF a + b > 0
    THEN 2 * Abs(a - b) * TolDen <= k * TolNum * (a + b)
    ELSE 2 * Abs(a - b) * TolDen >= k * TolNum * (a + b)

\* The points of a returned score that are left for the amount once the
\* transaction id and the reference number have had theirs.
AmountPointsIn(score, u, s) ==
  (score * FullWeight * 3) \div ScoreUnit
    - (IF u.transactionId = s.transactionId THEN FullWeight ELSE 0)
    - (IF u.referenceNumber = s.referenceNumber THEN PartialWeight ELSE 0)

\* C2: determineMatchStatus is the ordered decision table: 'duplicate' when
\* duplicateCount > 1 whatever the score, else 'matched' from 0.95,
\* else 'partially_matched' from 0.60, else 'not_matched'; the differences
\* argument has no influence.
C2_DecisionTable ==
  call.fn = "determineMatchStatus" =>
    /\ call.ret =
         IF call.duplicateCount > 1 THEN "duplicate"
         ELSE IF call.score * 100 >= 95 * ScoreUnit THEN "matched"
         ELSE IF call.score * 100 >= 60 * ScoreUnit THEN "partially_matched"
         ELSE "not_matched"
    /\ \A d \in {<<>>, call.differences, call.differences \o call.differences} :
         determineMatchStatus(call.score, d, call.duplicateCount) = call.ret

C2_Witness ==
  /\ call.fn = "determineMatchStatus"
  /\ call.duplicateCount > 1
  /\ call.score = ScoreUnit
  /\ call.differences # <<>>
  /\ call.ret = "duplicate"

\* C3: for amounts a, b whose variance v = |a-b| / ((a+b)/2) exists, the
\* amount's part of the score is 1 when v <= t, 0.5 when t < v <= 2t and 0
\* when v > 2t.
C3_AmountContribution ==
  (call.fn = "calculateMatchScore" /\ call.u.amount + call.s.amount # 0) =>
    LET a == call.u.amount
        b == call.s.amount
        points == AmountPointsIn(call.ret, call.u, call.s)
    IN /\ VarianceLeq(a, b, 1) => points = FullWeight
       /\ (~VarianceLeq(a, b, 1) /\ VarianceLeq(a, b, 2)) => points = HalfWeight
       /\ ~VarianceLeq(a, b, 2) => points = 0

C3_Witness ==
  /\ call.fn = "calculateMatchScore"
  /\ call.u.amount = 98
  /\ call.s.amount = 100
  /\ AmountPointsIn(call.ret, call.u, call.s) = HalfWeight

\* C4: calculateMatchScore returns (T + A + R) / 3 with T 1 or 0 by equality
\* of the transaction ids, A one of 0, 0.5, 1 and R 0.8 or 0 by equality of
\* the reference numbers, and the score is within [0, 1].
C4_ScoreFormula ==
  call.fn = "calculateMatchScore" =>
    LET T == IF call.u.transactionId = call.s.transactionId THEN 10 ELSE 0
        R == IF call.u.referenceNumber = call.s.referenceNumber THEN 8 ELSE 0
    IN /\ \E A \in {0, 5, 10} : call.ret * 30 = (T + A + R) * ScoreUnit
       /\ call.ret >= 0
       /\ call.ret <= ScoreUnit

C4_Witness ==
  /\ call.fn = "calculateMatchScore"
  /\ call.u.transactionId = call.s.transactionId
  /\ call.u.referenceNumber = call.s.referenceNumber
  /\ call.u.amount = 100
  /\ call.s.amount = 103
  /\ call.ret * 30 = 23 * ScoreUnit

\* The differences list the claim describes: an entry for a field exactly
\* when the two values are unequal, in the field order.
RECURSIVE DifferencesByValue(_, _, _)
DifferencesByValue(i, u, s) ==
  IF i > Len(fieldsToCompare) THEN <<>>
  ELSE LET f == fieldsToCompare[i]
       IN (IF u[f] # s[f]
             THEN <<[field |-> f, uploadedValue |-> u[f], systemValue |-> s[f],
                     variance |-> IF f = "amount"
                                    THEN Quot(Abs(u[f] - s[f]), Max(u[f], s[f]))
                                    ELSE NoVariance]>>
             ELSE <<>>)
          \o DifferencesByValue(i + 1, u, s)

\* C9: findDifferences has an entry {field, uploadedValue, systemValue} for a
\* field of transactionId, amount, referenceNumber, date, description
\* exactly when the two records' values of it are unequal, in that order,
\* once per field; records equal on all five give the empty list; the
\* amount entry carries variance = |a-b| / max(a, b).
C9_DifferencesExactlyUnequalFields ==
  call.fn = "findDifferences" =>
    call.ret = DifferencesByValue(1, call.u, call.s)

(***************************************************************************)
(* Properties of the queries                                               *)
(***************************************************************************)
\* The two tiers the claim describes.
ExactTier(u) ==
  SelectSeq(records, LAMBDA r : /\ r.isSystemRecord
                                /\ r.transactionId = u.transactionId
                                /\ r.amount = u.amount)

\* amount within u.amount x (1 +- tolerance): between the two products.
PartialTier(u) ==
  LET lo == u.amount * (TolDen - TolNum)
      hi == u.amount * (TolDen + TolNum)
  IN SelectSeq(records, LAMBDA r : /\ r.isSystemRecord
                                   /\ r.referenceNumber = u.referenceNumber
                                   /\ r.amount * TolDen >= (IF lo <= hi THEN lo ELSE hi)
                                   /\ r.amount * TolDen <= (IF lo <= hi THEN hi ELSE lo))

\* C8: for an uploaded record with a positive, zero or negative amount,
\* findSystemMatches returns the exact tier when it is not empty and
\* otherwise the partial tier (same reference number, amount within
\* u.amount x (1 +- tolerance)), never a non-system record, never a mix.
C8_TwoTiers ==
  (call.fn = "findSystemMatches" /\ call.pc = "done") =>
    /\ call.ret = IF ExactTier(call.u) # <<>> THEN ExactTier(call.u)
                  ELSE PartialTier(call.u)
    /\ \A i \in 1..Len(call.ret) : call.ret[i].isSystemRecord

(***************************************************************************)
(* reconcileUploadJob as a process: ops[p] is the call in progress in      *)
(* process p, pc the awaited store call it is waiting for and the other    *)
(* fields its local variables.  A step is the completion of one awaited    *)
(* store call with the code that follows it up to the next await.          *)
(***************************************************************************)
Running(p) ==
  ops[p].pc \in {"find", "duplicates", "exact", "partial", "store", "audit",
                 "load", "save", "log",
                 "check", "create", "job",
                 "lookup", "begin", "parse", "total", "insert", "complete",
                 "notify", "failing"}

Quiet == \A p \in Procs : ~Running(p)

\* The process of the specifications in which calls do not overlap.
First == CHOOSE p \in Procs : \A q \in Procs : p <= q

InitReconcile ==
  /\ records \in Stores(UploadedDomain, MaxUploaded, SystemDomain, MaxSystem)
  /\ results = <<>>
  /\ auditLog = <<>>
  /\ ops = [p \in Procs |-> IdleOp]
  /\ resolves = 0
  /\ call = NoCall
  /\ uploadJobs = StoredJobs
  /\ queue = IdleQueue
  /\ files = {}

\* Lines 141-144: a call up to its first await, Record.find.
reconcileCall(uploadJobId, userId) ==
  [kind |-> "reconcile", pc |-> "find",
   uploadJobId |-> uploadJobId, userId |-> userId,
   uploadedRecords |-> <<>>,
   duplicates |-> {},
   i |-> 1,
   duplicateCount |-> 0,
   systemMatches |-> <<>>,
   reconciliationResult |-> NoValue,
   reconciliationResults |-> <<>>]

\* The calls a specification lets its callers make: those whose results
\* fit in MaxResults.  It guards the caller's choice in the next-state
\* relations below and no step of the code.
WithinResults(uploadJobId) ==
  Len(results) + Len(uploadedRecordsOf(uploadJobId)) <= MaxResults

\* reconcileUploadJob(uploadJobId, userId) is called.
ReconcileStart(p, uploadJobId, userId) ==
  /\ ~Running(p)
  /\ ops' = [ops EXCEPT ![p] = reconcileCall(uploadJobId, userId)]
  /\ UNCHANGED <<records, results, auditLog, resolves, call, uploadJobs, queue,
                 files>>

\* Lines 144-154: Record.find returns the batch; the call fails when it is
\* empty and asks for the duplicates otherwise.
ReconcileFind(p) ==
  /\ ops[p].kind = "reconcile"
  /\ ops[p].pc = "find"
  /\ LET op == ops[p]
         uploadedRecords == uploadedRecordsOf(op.uploadJobId)
     IN ops' = [ops EXCEPT ![p] =
          IF Len(uploadedRecords) = 0
            THEN [kind |-> "reconcile", pc |-> "failed",
                  uploadJobId |-> op.uploadJobId, userId |-> op.userId,
                  error |-> "No uploaded records found for reconciliation"]
            ELSE [op EXCEPT !.pc = "duplicates",
                            !.uploadedRecords = uploadedRecords]]
  /\ UNCHANGED <<records, results, auditLog, resolves, call, uploadJobs, queue,
                 files>>

\* Lines 154-166 (125): Record.aggregate returns the duplicate groups; the
\* loop begins with the exact query of the first record.
ReconcileDuplicates(p) ==
  /\ ops[p].kind = "reconcile"
  /\ ops[p].pc = "duplicates"
  /\ ops' = [ops EXCEPT ![p] =
       [@ EXCEPT !.pc = "exact",
                 !.duplicates = findDuplicates(ops[p].uploadJobId)]]
  /\ UNCHANGED <<records, results, auditLog, resolves, call, uploadJobs, queue,
                 files>>

\* Lines 161-197: findSystemMatches has returned systemMatches; the best
\* candidate is chosen, the document is built and its save begins.
resultFor(op, systemMatches) ==
  LET uploadedRecord == op.uploadedRecords[op.i]
      duplicateCount == duplicateCountOf(op.duplicates, uploadedRecord)
  IN [op EXCEPT !.pc = "store",
                !.duplicateCount = duplicateCount,
                !.systemMatches = systemMatches,
                !.reconciliationResult =
                   newReconciliationResult(NoId, uploadedRecord,
                                           duplicateCount, systemMatches,
                                           op.uploadJobId)]

\* Lines 98-107: the exact query returns; with no exact match the partial
\* query is sent.
ReconcileExact(p) ==
  /\ ops[p].kind = "reconcile"
  /\ ops[p].pc = "exact"
  /\ LET op == ops[p]
         matches == exactMatches(op.uploadedRecords[op.i])
     IN ops' = [ops EXCEPT ![p] =
          IF Len(matches) = 0
            THEN [op EXCEPT !.pc = "partial"]
            ELSE resultFor(op, matches)]
  /\ UNCHANGED <<records, results, auditLog, resolves, call, uploadJobs, queue,
                 files>>

\* Lines 111-120: the partial query returns.
ReconcilePartial(p) ==
  /\ ops[p].kind = "reconcile"
  /\ ops[p].pc = "partial"
  /\ ops' = [ops EXCEPT ![p] =
       resultFor(@, partialMatches(ops[p].uploadedRecords[ops[p].i]))]
  /\ UNCHANGED <<records, results, auditLog, resolves, call, uploadJobs, queue,
                 files>>

\* ReconcileRecord as an upsert: the new result takes the place of the
\* result the uploaded record already has.
ReconcileRecordReplacing(p) ==
  /\ ops[p].kind = "reconcile"
  /\ ops[p].pc = "store"
  /\ LET op == ops[p]
         reconciliationResult ==
           [op.reconciliationResult EXCEPT !.id = Len(results) + 1]
         kept == SelectSeq(results,
                   LAMBDA r : r.uploadedRecordId
                                # reconciliationResult.uploadedRecordId)
     IN /\ results' = Append(kept, reconciliationResult)
        /\ ops' = [ops EXCEPT ![p] =
             [op EXCEPT !.pc = "audit",
                        !.reconciliationResult = reconciliationResult,
                        !.reconciliationResults =
                           Append(@, reconciliationResult)]]
  /\ UNCHANGED <<records, auditLog, resolves, call, uploadJobs, queue, files>>

\* Lines 197-201: save() stores the document, which is pushed to
\* reconciliationResults.  The _id of a document is its place in the
\* collection.
ReconcileRecord(p) ==
  /\ ops[p].kind = "reconcile"
  /\ ops[p].pc = "store"
  /\ LET op == ops[p]
         reconciliationResult ==
           [op.reconciliationResult EXCEPT !.id = Len(results) + 1]
     IN /\ results' = Append(results, reconciliationResult)
        /\ ops' = [ops EXCEPT ![p] =
             [op EXCEPT !.pc = "audit",
                        !.reconciliationResult = reconciliationResult,
                        !.reconciliationResults =
                           Append(@, reconciliationResult)]]
  /\ UNCHANGED <<records, auditLog, resolves, call, uploadJobs, queue, files>>

\* Lines 201-224: AuditLog.create stores the entry of the result just
\* saved; then the next record's exact query, or the summary.
ReconcileAudit(p) ==
  /\ ops[p].kind = "reconcile"
  /\ ops[p].pc = "audit"
  /\ LET op == ops[p]
         created == op.reconciliationResults
         reconciliationResult == created[Len(created)]
     IN /\ auditLog' = Append(auditLog,
                              reconcileAuditEntry(reconciliationResult,
                                                  op.userId))
        /\ ops' = [ops EXCEPT ![p] =
             IF op.i < Len(op.uploadedRecords)
               THEN [op EXCEPT !.pc = "exact", !.i = op.i + 1]
               ELSE [kind |-> "reconcile", pc |-> "done",
                     uploadJobId |-> op.uploadJobId, userId |-> op.userId,
                     ret |-> [success |-> TRUE,
                              totalRecords |-> Len(op.uploadedRecords),
                              matched |-> countStatus(created, "matched"),
                              partiallyMatched |->
                                countStatus(created, "partially_matched"),
                              notMatched |->
                                countStatus(created, "not_matched"),
                              duplicates |->
                                countStatus(created, "duplicate")]]]
  /\ UNCHANGED <<records, results, resolves, call, uploadJobs, queue, files>>

\* ReconcileFail with a rollback: the results and audit entries the call
\* created are removed.
ReconcileFailWithRollback(p) ==
  /\ ops[p].kind = "reconcile"
  /\ Running(p)
  /\ ops' = [ops EXCEPT ![p] =
       [kind |-> "reconcile", pc |-> "failed",
        uploadJobId |-> ops[p].uploadJobId, userId |-> ops[p].userId,
        error |-> "store"]]
  /\ results' = SubSeq(results, 1,
                       Len(results) - Len(ops[p].reconciliationResults))
  /\ auditLog' = SubSeq(auditLog, 1, Len(auditLog) - (ops[p].i - 1))
  /\ UNCHANGED <<records, resolves, call, uploadJobs, queue, files>>

\* Lines 226-229: the awaited store call of the try block rejects; the
\* error is rethrown.
ReconcileFail(p) ==
  /\ ops[p].kind = "reconcile"
  /\ Running(p)
  /\ ops' = [ops EXCEPT ![p] =
       [kind |-> "reconcile", pc |-> "failed",
        uploadJobId |-> ops[p].uploadJobId, userId |-> ops[p].userId,
        error |-> "store"]]
  /\ UNCHANGED <<records, results, auditLog, resolves, call, uploadJobs, queue,
                 files>>

\* The steps of a call in progress.
ReconcileStep(p) ==
  \/ ReconcileFind(p)
  \/ ReconcileDuplicates(p)
  \/ ReconcileExact(p)
  \/ ReconcilePartial(p)
  \/ ReconcileRecord(p)
  \/ ReconcileAudit(p)

NextReconcile ==
  \/ \E uploadJobId \in JobArgs, userId \in Users :
       /\ Quiet
       /\ WithinResults(uploadJobId)
       /\ ReconcileStart(First, uploadJobId, userId)
  \/ ReconcileStep(First)
  \/ ReconcileFail(First)

SpecReconcile == InitReconcile /\ [][NextReconcile]_vars

(***************************************************************************)
(* resolveManually as a process; resolves counts the calls begun.          *)
(* findById returns a document of its own;                                *)
(* the assignments change that document and mark the paths whose value     *)
(* changed; save() writes the marked paths to the stored document.         *)
(***************************************************************************)
\* Lines 239-243.
resolveOldValue(reconciliationResult) ==
  [matchStatus |-> reconciliationResult.matchStatus,
   isManuallyResolved |-> reconciliationResult.isManuallyResolved,
   notes |-> reconciliationResult.notes]

\* resolveAssign without the assignment of the override flag.
resolveAssignWithoutFlag(reconciliationResult, resolution, userId) ==
  [reconciliationResult EXCEPT
     !.matchStatus = resolution.matchStatus,
     !.resolvedBy = userId,
     !.resolvedAt = "now",
     !.notes = resolution.notes,
     !.systemRecordId = IF resolution.systemRecordId # NoId
                          THEN resolution.systemRecordId ELSE @]

\* Lines 246-254: the document after the assignments.
resolveAssign(reconciliationResult, resolution, userId) ==
  [reconciliationResult EXCEPT
     !.matchStatus = resolution.matchStatus,
     !.isManuallyResolved = TRUE,
     !.resolvedBy = userId,
     !.resolvedAt = "now",
     !.notes = resolution.notes,
     !.systemRecordId = IF resolution.systemRecordId # NoId
                          THEN resolution.systemRecordId ELSE @]

\* Lines 259-272.
resolveAuditEntry(reconciliationResult, oldValue, userId) ==
  [entityType |-> "reconciliation_result",
   entityId |-> reconciliationResult.id,
   action |-> "resolve",
   userId |-> userId,
   oldValue |-> oldValue,
   newValue |-> [matchStatus |-> reconciliationResult.matchStatus,
                 isManuallyResolved |-> TRUE,
                 notes |-> reconciliationResult.notes,
                 systemRecordId |-> reconciliationResult.systemRecordId],
   source |-> "web_ui"]

\* The resolutions the route lets through: a status of the three, notes
\* given or not, a system record of the store given or not.
Resolutions ==
  [matchStatus : {"matched", "partially_matched", "not_matched"},
   systemRecordId : {NoId} \cup {r.id : r \in
      {records[i] : i \in {j \in 1..Len(records) : records[j].isSystemRecord}}},
   notes : {NoNotes, "checked"}]

\* Line 233: the call, up to the await of findById.  logged is the length
\* of the audit log when the call began.
ResolveStart(p, reconciliationId, resolution, userId) ==
  /\ ~Running(p)
  /\ resolves < MaxResolves
  /\ resolves' = resolves + 1
  /\ ops' = [ops EXCEPT ![p] =
       [kind |-> "resolve", pc |-> "load",
        reconciliationId |-> reconciliationId,
        resolution |-> resolution,
        userId |-> userId,
        logged |-> Len(auditLog)]]
  /\ UNCHANGED <<records, results, auditLog, call, uploadJobs, queue, files>>

\* The document the call works on: loaded, as findById returned it, doc
\* after the assignments, and the paths the assignments changed.
resolveDocument(op, loaded) ==
  LET doc == resolveAssign(loaded, op.resolution, op.userId)
  IN [kind |-> "resolve", pc |-> "save",
      reconciliationId |-> op.reconciliationId,
      resolution |-> op.resolution,
      userId |-> op.userId,
      loaded |-> loaded,
      logged |-> op.logged,
      oldValue |-> resolveOldValue(loaded),
      doc |-> doc,
      modified |-> {f \in {"matchStatus", "isManuallyResolved",
                                  "resolvedBy", "notes", "systemRecordId"} :
                      doc[f] # loaded[f]}
                   \cup {"resolvedAt"}]

\* ResolveLoad without the not-found check: a missing id falls back to
\* the result stored last.
ResolveLoadWithoutCheck(p) ==
  /\ ops[p].kind = "resolve"
  /\ ops[p].pc = "load"
  /\ ops' = [ops EXCEPT ![p] =
       IF Len(results) = 0
         THEN [kind |-> "resolve", pc |-> "failed",
               reconciliationId |-> ops[p].reconciliationId,
               error |-> "Reconciliation result not found"]
         ELSE resolveDocument(ops[p],
                IF ops[p].reconciliationId \in 1..Len(results)
                  THEN results[ops[p].reconciliationId]
                  ELSE results[Len(results)])]
  /\ UNCHANGED <<records, results, auditLog, resolves, call, uploadJobs, queue,
                 files>>

\* Lines 234-256: findById returns; the call fails when there is no such
\* result, else oldValue is captured, the document is assigned to and its
\* save begins.
ResolveLoad(p) ==
  /\ ops[p].kind = "resolve"
  /\ ops[p].pc = "load"
  /\ ops' = [ops EXCEPT ![p] =
       IF ops[p].reconciliationId \notin 1..Len(results)
         THEN [kind |-> "resolve", pc |-> "failed",
               reconciliationId |-> ops[p].reconciliationId,
               error |-> "Reconciliation result not found"]
         ELSE resolveDocument(ops[p], results[ops[p].reconciliationId])]
  /\ UNCHANGED <<records, results, auditLog, resolves, call, uploadJobs, queue,
                 files>>

\* Line 256: save() sets the modified paths of the stored document.
ResolveSave(p) ==
  /\ ops[p].kind = "resolve"
  /\ ops[p].pc = "save"
  /\ results' = [results EXCEPT ![ops[p].reconciliationId] =
       [f \in DOMAIN @ |-> IF f \in ops[p].modified
                             THEN ops[p].doc[f] ELSE @[f]]]
  /\ ops' = [ops EXCEPT ![p].pc = "log"]
  /\ UNCHANGED <<records, auditLog, resolves, call, uploadJobs, queue, files>>

\* ResolveAudit as an update: the entry takes the place of the last entry
\* of the audit log.
ResolveAuditReplacing(p) ==
  /\ ops[p].kind = "resolve"
  /\ ops[p].pc = "log"
  /\ auditLog' = [auditLog EXCEPT ![Len(auditLog)] =
                    resolveAuditEntry(ops[p].doc, ops[p].oldValue,
                                      ops[p].userId)]
  /\ ops' = [ops EXCEPT ![p].pc = "done"]
  /\ UNCHANGED <<records, results, resolves, call, uploadJobs, queue, files>>

\* Lines 258-274: the audit entry, then the document is returned.
ResolveAudit(p) ==
  /\ ops[p].kind = "resolve"
  /\ ops[p].pc = "log"
  /\ auditLog' = Append(auditLog,
                        resolveAuditEntry(ops[p].doc, ops[p].oldValue,
                                          ops[p].userId))
  /\ ops' = [ops EXCEPT ![p].pc = "done"]
  /\ UNCHANGED <<records, results, resolves, call, uploadJobs, queue, files>>

\* The awaited store call of resolveManually rejects (findById, save or
\* AuditLog.create); nothing in the function catches it.
ResolveFail(p) ==
  /\ ops[p].kind = "resolve"
  /\ ops[p].pc \in {"load", "save", "log"}
  /\ ops' = [ops EXCEPT ![p] =
       [kind |-> "resolve", pc |-> "failed",
        reconciliationId |-> ops[p].reconciliationId,
        error |-> "store"]]
  /\ UNCHANGED <<records, results, auditLog, resolves, call, uploadJobs, queue,
                 files>>

\* Manual resolutions, one call at a time, of the results that
\* reconciliation runs of user U1 leave for a batch of one uploaded record
\* (T1, amount 100) or two (T1 and T2, amount 100), with no system record
\* or one that shares the transaction id T1.
ResolveStores ==
  {u \o s : u \in {x \in SeqsOver(UploadedDomain, 0, 2) :
                     /\ x # <<>>
                     /\ \A i \in 1..Len(x) : x[i].amount = 100
                     /\ x[1].transactionId = "T1"
                     /\ Len(x) = 2 => x[2].transactionId = "T2"},
            s \in {y \in SeqsOver(SystemDomain, 100, 1) :
                     y # <<>> => y[1].amount \in {100, 103}}}

InitResolve ==
  /\ records \in ResolveStores
  /\ results = <<>>
  /\ auditLog = <<>>
  /\ ops = [p \in Procs |-> IdleOp]
  /\ resolves = 0
  /\ call = NoCall
  /\ uploadJobs = StoredJobs
  /\ queue = IdleQueue
  /\ files = {}

NextResolve ==
  \/ /\ Quiet
     /\ WithinResults(IdArg("ObjectId", "J1"))
     /\ ReconcileStart(First, IdArg("ObjectId", "J1"), "U1")
  \/ ReconcileStep(First)
  \/ \E id \in 1..(Len(results) + 1), resolution \in Resolutions,
        userId \in Users :
       Quiet /\ ResolveStart(First, id, resolution, userId)
  \/ ResolveLoad(First)
  \/ ResolveSave(First)
  \/ ResolveAudit(First)
  \/ ResolveFail(First)

SpecResolve == InitResolve /\ [][NextResolve]_vars

\* Manual resolutions of a result that may have been resolved before: the
\* store after one reconciliation run of user U1 on a batch of one uploaded
\* record and, possibly, one manual resolution with notes by user U1.
InitResolveAgain ==
  /\ records \in {s \in ResolveStores :
                    Len(SelectSeq(s, LAMBDA r : ~r.isSystemRecord)) = 1}
  /\ \E earlier \in {<<>>} \cup {<<r>> : r \in {x \in Resolutions : x.notes = "checked"}} :
       LET uploadJobId == IdArg("ObjectId", "J1")
           created ==
             newReconciliationResult(
               1, records[1],
               duplicateCountOf(findDuplicates(uploadJobId), records[1]),
               findSystemMatches(records[1]), uploadJobId)
           resolved == resolveAssign(created, earlier[1], "U1")
       IN IF earlier = <<>>
            THEN /\ results = <<created>>
                 /\ auditLog = <<reconcileAuditEntry(created, "U1")>>
            ELSE /\ results = <<resolved>>
                 /\ auditLog = <<reconcileAuditEntry(created, "U1"),
                                 resolveAuditEntry(resolved,
                                                   resolveOldValue(created),
                                                   "U1")>>
  /\ ops = [p \in Procs |-> IdleOp]
  /\ resolves = 0
  /\ call = NoCall
  /\ uploadJobs = StoredJobs
  /\ queue = IdleQueue
  /\ files = {}

NextResolveAgain ==
  \/ \E id \in 1..(Len(results) + 1), resolution \in Resolutions,
        userId \in Users :
       Quiet /\ ResolveStart(First, id, resolution, userId)
  \/ ResolveLoad(First)
  \/ ResolveSave(First)
  \/ ResolveAudit(First)
  \/ ResolveFail(First)

SpecResolveAgain == InitResolveAgain /\ [][NextResolveAgain]_vars

(***************************************************************************)
(* getReconciliationStats, called in any state of the runs above           *)
(***************************************************************************)
\* Hundredths of a percent in the quotient of two counts: * 100, two
\* decimals.
AccuracyScale == 10000

(***************************************************************************)
(* (num / den * 100).toFixed(2), line 303.  The quotient and the product   *)
(* are doubles, each the exact value rounded to 53 significant bits, ties  *)
(* to even; toFixed(2) gives the hundredth nearest to the double's exact   *)
(* value, the larger one on a tie.  A natural number is held as the        *)
(* sequence of its binary digits, the lowest first.                        *)
(***************************************************************************)
SignificandBits == 53

RECURSIVE toBits(_)
toBits(n) == IF n = 0 THEN <<>> ELSE <<n % 2>> \o toBits(n \div 2)

\* bits * c + carry, for a small factor c.
RECURSIVE timesSmall(_, _, _)
timesSmall(bits, c, carry) ==
  IF bits = <<>> THEN toBits(carry)
  ELSE <<(Head(bits) * c + carry) % 2>>
         \o timesSmall(Tail(bits), c, (Head(bits) * c + carry) \div 2)

RECURSIVE increment(_)
increment(bits) ==
  IF bits = <<>> THEN <<1>>
  ELSE IF Head(bits) = 0 THEN <<1>> \o Tail(bits)
  ELSE <<0>> \o increment(Tail(bits))

\* a < b for two numbers without leading zeros.
lessBits(a, b) ==
  IF Len(a) # Len(b) THEN Len(a) < Len(b)
  ELSE \E i \in 1..Len(a) :
         /\ a[i] < b[i]
         /\ \A j \in (i + 1)..Len(a) : a[j] = b[j]

\* The number of zeros between the binary point and the first 1 of
\* num / den, for 0 < num < den.
RECURSIVE leadingZeros(_, _)
leadingZeros(num, den) ==
  IF 2 * num >= den THEN 0 ELSE 1 + leadingZeros(2 * num, den)

\* The next n binary digits of r / den put before bits, and the remainder
\* left.
RECURSIVE quotientBits(_, _, _, _)
quotientBits(r, den, n, bits) ==
  IF n = 0 THEN [bits |-> bits, rem |-> r]
  ELSE IF 2 * r >= den
    THEN quotientBits(2 * r - den, den, n - 1, <<1>> \o bits)
    ELSE quotientBits(2 * r, den, n - 1, <<0>> \o bits)

\* The double num / den for 0 < num < den: the value m / 2^e.
doubleQuotient(num, den) ==
  LET z == leadingZeros(num, den)
      q == quotientBits(num * (2 ^ z), den, SignificandBits, <<>>)
      up == \/ 2 * q.rem > den
            \/ 2 * q.rem = den /\ Head(q.bits) = 1
  IN [m |-> IF up THEN increment(q.bits) ELSE q.bits,
      e |-> z + SignificandBits]

\* The double nearest to bits: the value m * 2^k.
roundToDouble(bits) ==
  LET k == Len(bits) - SignificandBits
      kept == SubSeq(bits, k + 1, Len(bits))
      up == /\ bits[k] = 1
            /\ \/ \E i \in 1..(k - 1) : bits[i] = 1
               \/ Head(kept) = 1
  IN IF k <= 0 THEN [m |-> bits, k |-> 0]
     ELSE [m |-> IF up THEN increment(kept) ELSE kept, k |-> k]

\* toFixed when num / den * 100 lies, in exact arithmetic, halfway between
\* two hundredths: the double lies below the half, on it or above it.
toFixedOfTie(num, den) ==
  LET x == doubleQuotient(num, den)
      y == roundToDouble(timesSmall(x.m, 100, 0))
      twice == (2 * num * AccuracyScale) \div den
      below == lessBits([i \in 1..y.k |-> 0] \o timesSmall(y.m, 200, 0),
                        [i \in 1..x.e |-> 0] \o toBits(twice))
  IN IF below THEN (twice - 1) \div 2 ELSE (twice + 1) \div 2

\* The hundredths of (num / den * 100).toFixed(2), for 0 <= num <= den.
\* Off a tie the double is on the same side of the half as the exact
\* value, whose nearest hundredth it is then.
toFixed(num, den) ==
  IF 2 * ((num * AccuracyScale) % den) = den
    THEN toFixedOfTie(num, den)
    ELSE (2 * num * AccuracyScale + den) \div (2 * den)

matchStatuses == {"matched", "partially_matched", "not_matched", "duplicate"}

\* The aggregation of lines 279-287: $match { uploadJobId } as passed, then
\* one group per status present with its count.
statsGroups(uploadJobId) ==
  LET matching == {i \in 1..Len(results) :
                     pipelineIdMatches(results[i].uploadJobId, uploadJobId)}
      count(status) ==
        Cardinality({i \in matching : results[i].matchStatus = status})
  IN {[id |-> status, count |-> count(status)] :
        status \in {results[i].matchStatus : i \in matching}}

RECURSIVE statsTotal(_)
statsTotal(stats) ==
  IF stats = {} THEN 0
  ELSE LET stat == CHOOSE g \in stats : TRUE
       IN stat.count + statsTotal(stats \ {stat})

\* Lines 289-306: zeros, overwritten by the groups; total their sum;
\* accuracy the number 0 or the string toFixed returns.
getReconciliationStats(uploadJobId) ==
  LET stats == statsGroups(uploadJobId)
      of(status) == IF \E g \in stats : g.id = status
                      THEN (CHOOSE g \in stats : g.id = status).count
                      ELSE 0
      total == statsTotal(stats)
  IN [matched |-> of("matched"),
      partially_matched |-> of("partially_matched"),
      not_matched |-> of("not_matched"),
      duplicate |-> of("duplicate"),
      total |-> total,
      accuracy |-> IF total > 0
                     THEN [type |-> "string",
                           hundredths |->
                             toFixed(of("matched") + of("partially_matched"),
                                     total)]
                     ELSE [type |-> "number", hundredths |-> 0]]

\* The statistics are asked for batch J1 or J2, the id passed as a string
\* or as an ObjectId.
CallGetReconciliationStats ==
  \E uploadJobId \in {IdArg(k, j) : k \in {"string", "ObjectId"},
                                       j \in {"J1", "J2"}} :
    /\ call = NoCall
    /\ call' = [fn |-> "getReconciliationStats", uploadJobId |-> uploadJobId,
                ret |-> getReconciliationStats(uploadJobId)]
    /\ UNCHANGED <<records, results, auditLog, ops, resolves, uploadJobs, queue,
                 files>>

\* Line 303 for larger batches, before any run of the model: with 32 or
\* 160 results the percentage can lie halfway between two hundredths.
CallAccuracy ==
  \E total \in {3, 32, 160} :
    \E good \in 0..total :
      /\ call = NoCall
      /\ results = <<>>
      /\ Quiet
      /\ call' = [fn |-> "accuracy", good |-> good, total |-> total,
                  ret |-> [type |-> "string",
                           hundredths |-> toFixed(good, total)]]
      /\ UNCHANGED <<records, results, auditLog, ops, resolves, uploadJobs,
                     queue, files>>

NextStats ==
  \/ call = NoCall /\ NextResolve
  \/ CallGetReconciliationStats
  \/ CallAccuracy

SpecStats == InitResolve /\ [][NextStats]_vars

(***************************************************************************)
(* Operations on stored audit entries through the AuditLog model           *)
(***************************************************************************)
\* The query operations of a model that change or remove stored documents.
updateOperations ==
  {"updateOne", "updateMany", "findOneAndUpdate", "replaceOne",
   "findOneAndReplace"}

deleteOperations == {"deleteOne", "deleteMany", "findOneAndDelete"}

\* AuditLog.js 59-70: the operations with a pre hook, which throws.
auditLogPreHooks == {"updateOne", "findOneAndUpdate", "updateMany"}

\* The audit log after the operation on its i-th entry: as it was when a
\* hook throws, otherwise without the entry or with the entry changed.
auditLogAfter(operation, i) ==
  IF operation \in auditLogPreHooks THEN auditLog
  ELSE IF operation \in deleteOperations
    THEN SubSeq(auditLog, 1, i - 1) \o SubSeq(auditLog, i + 1, Len(auditLog))
    ELSE [auditLog EXCEPT ![i].action = "update"]

AuditLogOperation ==
  \E operation \in updateOperations \cup deleteOperations,
     i \in 1..Len(auditLog) :
    /\ call = NoCall
    /\ call' = [fn |-> "AuditLog", operation |-> operation, index |-> i,
                entry |-> auditLog[i],
                rejected |-> operation \in auditLogPreHooks]
    /\ auditLog' = auditLogAfter(operation, i)
    /\ UNCHANGED <<records, results, ops, resolves, uploadJobs, queue, files>>

NextAuditModel ==
  \/ call = NoCall /\ NextResolve
  \/ AuditLogOperation

SpecAuditModel == InitResolve /\ [][NextAuditModel]_vars

(***************************************************************************)
(* File upload (POST /file) and FileProcessor.processFile                  *)
(***************************************************************************)
FileHashes == {"h1", "h2"}

\* The _id of the n-th upload job created.
JobIds == <<"J1", "J2", "J3", "J4">>

\* The rows of the file with the given hash as parseCSV returns them, the
\* k-th with row number k: one object per line with a string per column,
\* the empty string for an empty cell.  The columns are named as the
\* fields the column mapping gives them to.  File h1 has one valid row,
\* T1; file h0 one row without transaction id and amount; the other file
\* four rows, of which the second has no transaction id, no number as its
\* amount and no date as its date, and the third has the transaction id of
\* the first between blanks.
FileRows(fileHash) ==
  LET row(transactionId, amount, date) ==
        [transactionId |-> transactionId, amount |-> amount,
         referenceNumber |-> "R1", date |-> date, description |-> ""]
  IN IF fileHash = "h1" THEN <<row("T1", "100", "2024-01-01")>>
     ELSE IF fileHash = "h0" THEN <<row("", "", "2024-01-01")>>
     ELSE <<row("T2", "100", "2024-01-01"), row("", "abc", "never"),
            row(" T2 ", "100", "2024-01-01"), row("T1", "100", "2024-01-01")>>

\* parseFloat of a cell, as a floating-point value: the number that the
\* cell's digits write, NaN for a cell that does not begin with a number
\* (the empty cell and "abc").
parseFloat(cell) ==
  IF cell = "100" THEN [kind |-> "num", num |-> 100, den |-> 1]
  ELSE [kind |-> "nan", num |-> 0, den |-> 1]

\* new Date(cell).getTime(), in days of the model's calendar: the day an
\* ISO date names, NaN (Invalid Date) for a cell that is no date.
newDate(cell) ==
  IF cell = "2024-01-01" THEN [kind |-> "num", num |-> 1, den |-> 1]
  ELSE [kind |-> "nan", num |-> 0, den |-> 1]

\* String.prototype.trim on the cells of the files above.
trim(cell) == IF cell = " T2 " THEN "T2" ELSE cell

\* validateRecord, lines 167-205: one error per required field whose cell
\* is empty, in the order of requiredFields, then one for an amount that is
\* not a number and one for a date that is not a date.
validateRecord(record, rowNumber) ==
  LET requiredFields ==
        <<"transactionId", "amount", "referenceNumber", "date">>
      missing == SelectSeq(requiredFields, LAMBDA field : record[field] = "")
      required ==
        [k \in 1..Len(missing) |->
           [row |-> rowNumber, field |-> missing[k],
            message |->
              "Required field '" \o missing[k] \o "' is missing or empty"]]
      amount ==
        IF record.amount # "" /\ parseFloat(record.amount).kind = "nan"
          THEN <<[row |-> rowNumber, field |-> "amount",
                  message |-> "Amount must be a valid number"]>>
          ELSE <<>>
      date ==
        IF record.date # "" /\ newDate(record.date).kind = "nan"
          THEN <<[row |-> rowNumber, field |-> "date",
                  message |-> "Date must be in a valid format"]>>
          ELSE <<>>
  IN required \o amount \o date

\* transformRecord, lines 207-217, of a row that validateRecord accepts.
transformRecord(record) ==
  [transactionId |-> trim(record.transactionId),
   amount |-> parseFloat(record.amount).num,
   referenceNumber |-> trim(record.referenceNumber),
   date |-> newDate(record.date).num,
   description |-> trim(record.description)]

\* The loop of lines 254-279 from row k on: the errors of a row that
\* validateRecord refuses are collected, every other row is transformed
\* and collected with its row number.
RECURSIVE validateLoop(_, _, _)
validateLoop(k, rawData, acc) ==
  IF k > Len(rawData) THEN acc
  ELSE validateLoop(k + 1, rawData,
         IF validateRecord(rawData[k], k) # <<>>
           THEN [acc EXCEPT !.errors = @ \o validateRecord(rawData[k], k)]
           ELSE [acc EXCEPT !.validRecords =
                   Append(@, [record |-> transformRecord(rawData[k]),
                              rowNumber |-> k])])

\* UploadJob.findOne({ fileHash, status: { $in: [completed, processing] } }):
\* the place of the first such job, 0 for null.
checkDuplicateFile(fileHash) ==
  LET found == {i \in 1..Len(uploadJobs) :
                  /\ uploadJobs[i].fileHash = fileHash
                  /\ uploadJobs[i].status \in {"completed", "processing"}}
  IN IF found = {} THEN 0 ELSE CHOOSE i \in found : \A j \in found : i <= j

\* POST /file, lines 62-70: the request, up to the await of
\* checkDuplicateFile, while fewer than MaxJobs uploads are stored or on
\* their way.
UploadStart(p, fileHash) ==
  /\ ~Running(p)
  /\ Len(uploadJobs)
       + Cardinality({q \in Procs : /\ ops[q].kind = "upload"
                                    /\ ops[q].pc \in {"check", "create"}})
     < MaxJobs
  /\ ops' = [ops EXCEPT ![p] =
       [kind |-> "upload", pc |-> "check", fileHash |-> fileHash]]
  /\ UNCHANGED <<records, results, auditLog, resolves, call, uploadJobs,
                 queue, files>>

\* Lines 70-92: checkDuplicateFile returns; 409 when a job is found, else
\* the new job's save begins.
UploadCheck(p) ==
  /\ ops[p].kind = "upload"
  /\ ops[p].pc = "check"
  /\ LET fileHash == ops[p].fileHash
     IN ops' = [ops EXCEPT ![p] =
          IF checkDuplicateFile(fileHash) # 0
            THEN [kind |-> "upload", pc |-> "rejected", fileHash |-> fileHash,
                  status |-> 409,
                  existingJobId |->
                    uploadJobs[checkDuplicateFile(fileHash)].id]
            ELSE [kind |-> "upload", pc |-> "create", fileHash |-> fileHash]]
  /\ UNCHANGED <<records, results, auditLog, resolves, call, uploadJobs,
                 queue, files>>

\* Lines 92-100: uploadJob.save() stores the job, whose file multer has
\* written to the uploads directory; the 202 answer.
UploadCreate(p) ==
  /\ ops[p].kind = "upload"
  /\ ops[p].pc = "create"
  /\ LET id == JobIds[Len(uploadJobs) + 1]
     IN /\ uploadJobs' = Append(uploadJobs,
                                UploadJob(id, ops[p].fileHash, "processing"))
        /\ ops' = [ops EXCEPT ![p] =
             [kind |-> "upload", pc |-> "done", fileHash |-> ops[p].fileHash,
              status |-> 202, jobId |-> id]]
        /\ files' = files \cup {id}
  /\ UNCHANGED <<records, results, auditLog, resolves, call, queue>>

\* Lines 102-109: checkDuplicateFile or uploadJob.save() rejects: the 500
\* answer of the catch.
UploadFail(p) ==
  /\ ops[p].kind = "upload"
  /\ ops[p].pc \in {"check", "create"}
  /\ ops' = [ops EXCEPT ![p] =
       [kind |-> "upload", pc |-> "failed", fileHash |-> ops[p].fileHash,
        status |-> 500, error |-> "store"]]
  /\ UNCHANGED <<records, results, auditLog, resolves, call, uploadJobs,
                 queue, files>>

\* The place of the upload job with the given id, 0 when there is none.
jobIndex(jobId) ==
  IF \E i \in 1..Len(uploadJobs) : uploadJobs[i].id = jobId
    THEN CHOOSE i \in 1..Len(uploadJobs) : uploadJobs[i].id = jobId
    ELSE 0

setJobStatus(jobId, status) ==
  [uploadJobs EXCEPT ![jobIndex(jobId)].status = status]

\* validRecords of lines 250-279 as documents of the Record collection.
\* Their ids follow the highest id an uploaded record has.
insertedRecords(jobId) ==
  LET rawData == FileRows(uploadJobs[jobIndex(jobId)].fileHash)
      valid == validateLoop(1, rawData,
                            [errors |-> <<>>,
                             validRecords |-> <<>>]).validRecords
      ids == {records[i].id :
                i \in {j \in 1..Len(records) : ~records[j].isSystemRecord}}
      uploaded == IF ids = {} THEN 0
                  ELSE CHOOSE n \in ids : \A m \in ids : m <= n
  IN [k \in 1..Len(valid) |->
        Rec(uploaded + k, valid[k].record.transactionId,
            valid[k].record.amount, valid[k].record.referenceNumber,
            valid[k].record.date, valid[k].record.description, jobId, FALSE)]

\* uniqueIndexRefuses on a collection that has the _id index only.
uniqueIndexRefusesNothing(stored, doc) ==
  \E i \in 1..Len(stored) :
    /\ stored[i].id = doc.id
    /\ stored[i].uploadJobId = doc.uploadJobId

\* The unique index on (transactionId, uploadJobId): the store refuses a
\* document whose pair a stored document has.
uniqueIndexRefuses(stored, doc) ==
  \E i \in 1..Len(stored) :
    /\ stored[i].transactionId = doc.transactionId
    /\ stored[i].uploadJobId = doc.uploadJobId

\* An unordered insert: each document is tried in turn, a refused one is
\* noted as a write error (by its place in docs) and the rest go on.
RECURSIVE insertUnordered(_, _, _)
insertUnordered(i, docs, acc) ==
  IF i > Len(docs) THEN acc
  ELSE insertUnordered(i + 1, docs,
         IF uniqueIndexRefuses(records \o acc.inserted, docs[i])
           THEN [acc EXCEPT !.writeErrors = Append(@, i)]
           ELSE [acc EXCEPT !.inserted = Append(@, docs[i])])

\* Lines 286-293: one error per write error of the insert, with the row
\* number of the document refused (err.err.op.rowNumber).
duplicateErrors(docs, rowNumbers) ==
  LET writeErrors ==
        insertUnordered(1, docs,
                        [inserted |-> <<>>, writeErrors |-> <<>>]).writeErrors
  IN [k \in 1..Len(writeErrors) |->
        [row |-> rowNumbers[writeErrors[k]], field |-> "transactionId",
         message |-> "Duplicate transaction ID in upload"]]

\* insertMany storing every document, as a collection without the unique
\* index does.
insertManyWithoutIndex(docs) ==
  SelectSeq(records, LAMBDA r : ~r.isSystemRecord) \o docs
    \o SelectSeq(records, LAMBDA r : r.isSystemRecord)

\* The Record collection after insertMany(docs, { ordered: false }).  The
\* upload records are stored before the system records, as in the stores
\* above.
insertMany(docs) ==
  SelectSeq(records, LAMBDA r : ~r.isSystemRecord)
    \o insertUnordered(1, docs,
                       [inserted |-> <<>>, writeErrors |-> <<>>]).inserted
    \o SelectSeq(records, LAMBDA r : r.isSystemRecord)

\* processFile, lines 219-220: the call, up to the await of findOne.
ProcessFileStart(p, jobId) ==
  /\ ~Running(p)
  /\ ops' = [ops EXCEPT ![p] =
       [kind |-> "processFile", pc |-> "lookup", jobId |-> jobId]]
  /\ UNCHANGED <<records, results, auditLog, resolves, call, uploadJobs,
                 queue, files>>

\* Lines 220-228: findOne returns; without a job the call throws, else the
\* job is assigned 'processing' and its save begins.
ProcessFileFind(p) ==
  /\ ops[p].kind = "processFile"
  /\ ops[p].pc = "lookup"
  /\ ops' = [ops EXCEPT ![p] =
       IF jobIndex(ops[p].jobId) = 0
         THEN [kind |-> "processFile", pc |-> "failed",
               jobId |-> ops[p].jobId, error |-> "Upload job not found"]
         ELSE [kind |-> "processFile", pc |-> "begin",
               jobId |-> ops[p].jobId]]
  /\ UNCHANGED <<records, results, auditLog, resolves, call, uploadJobs,
                 queue, files>>

\* Lines 228-242: the save stores status 'processing'.  The call throws
\* when the job's file is not in the uploads directory (line 233); else
\* parseCSV or parseExcel is called and awaited.  The test of the file's
\* extension (lines 237-245) admits what the fileFilter of POST /file
\* admits, so line 244 is not reached.
ProcessFileBegin(p) ==
  /\ ops[p].kind = "processFile"
  /\ ops[p].pc = "begin"
  /\ uploadJobs' = setJobStatus(ops[p].jobId, "processing")
  /\ ops' = [ops EXCEPT ![p] =
       IF ops[p].jobId \notin files
         THEN [kind |-> "processFile", pc |-> "failing",
               jobId |-> ops[p].jobId, error |-> "Uploaded file not found"]
         ELSE [kind |-> "processFile", pc |-> "parse",
               jobId |-> ops[p].jobId]]
  /\ UNCHANGED <<records, results, auditLog, resolves, call, queue, files>>

\* Lines 240-248: the parse of the file, during which no store call is
\* pending, returns the rows and the save of totalRecords begins, or it
\* rejects and the catch is entered.
ProcessFileParse(p) ==
  /\ ops[p].kind = "processFile"
  /\ ops[p].pc = "parse"
  /\ \E parsed \in BOOLEAN :
       ops' = [ops EXCEPT ![p] =
         IF parsed
           THEN [kind |-> "processFile", pc |-> "total",
                 jobId |-> ops[p].jobId]
           ELSE [kind |-> "processFile", pc |-> "failing",
                 jobId |-> ops[p].jobId, error |-> "parse"]]
  /\ UNCHANGED <<records, results, auditLog, resolves, call, uploadJobs,
                 queue, files>>

\* Lines 248-306: totalRecords, the number of rows, is saved and the rows
\* are validated and transformed; with valid rows insertMany begins,
\* without any the save of status 'completed' with the errors of the rows.
ProcessFileTotal(p) ==
  /\ ops[p].kind = "processFile"
  /\ ops[p].pc = "total"
  /\ LET rawData == FileRows(uploadJobs[jobIndex(ops[p].jobId)].fileHash)
         rows == validateLoop(1, rawData,
                              [errors |-> <<>>, validRecords |-> <<>>])
     IN ops' = [ops EXCEPT ![p] =
          IF Len(rows.validRecords) > 0
            THEN [kind |-> "processFile", pc |-> "insert",
                  jobId |-> ops[p].jobId]
            ELSE [kind |-> "processFile", pc |-> "complete",
                  jobId |-> ops[p].jobId,
                  totalRecords |-> Len(rawData),
                  processedRecords |-> 0,
                  errors |-> rows.errors]]
  /\ UNCHANGED <<records, results, auditLog, resolves, call, uploadJobs,
                 queue, files>>

\* Lines 283-306: insertMany stores the valid rows that the unique index
\* admits; the refused ones become errors after those of the validation,
\* and the save of status 'completed' begins.
ProcessFileInsert(p) ==
  /\ ops[p].kind = "processFile"
  /\ ops[p].pc = "insert"
  /\ records' = insertMany(insertedRecords(ops[p].jobId))
  /\ LET rawData == FileRows(uploadJobs[jobIndex(ops[p].jobId)].fileHash)
         rows == validateLoop(1, rawData,
                              [errors |-> <<>>, validRecords |-> <<>>])
         validRecords == insertedRecords(ops[p].jobId)
         refused ==
           duplicateErrors(validRecords,
                           [k \in 1..Len(rows.validRecords) |->
                              rows.validRecords[k].rowNumber])
     IN ops' = [ops EXCEPT ![p] =
          [kind |-> "processFile", pc |-> "complete", jobId |-> ops[p].jobId,
           totalRecords |-> Len(rawData),
           processedRecords |-> Len(validRecords) - Len(refused),
           errors |-> rows.errors \o refused]]
  /\ UNCHANGED <<results, auditLog, resolves, call, uploadJobs, queue, files>>

\* Lines 306-308: the job is saved with status 'completed'.
ProcessFileComplete(p) ==
  /\ ops[p].kind = "processFile"
  /\ ops[p].pc = "complete"
  /\ uploadJobs' = setJobStatus(ops[p].jobId, "completed")
  /\ ops' = [ops EXCEPT ![p].pc = "notify"]
  /\ UNCHANGED <<records, results, auditLog, resolves, call, queue, files>>

\* The audit entry of lines 308-319; the job's uploader is user U1.
uploadAuditEntry(jobId, totalRecords, processedRecords, errorRecords) ==
  [entityType |-> "upload_job",
   entityId |-> jobId,
   action |-> "upload",
   userId |-> "U1",
   newValue |-> [totalRecords |-> totalRecords,
                 processedRecords |-> processedRecords,
                 errorRecords |-> errorRecords],
   source |-> "system"]

\* Lines 308-328: AuditLog.create stores the entry and fs.unlinkSync
\* removes the job's file; the summary is returned.  When unlinkSync throws
\* (the file is gone or may not be removed) the catch is entered.
ProcessFileAudit(p) ==
  /\ ops[p].kind = "processFile"
  /\ ops[p].pc = "notify"
  /\ auditLog' = Append(auditLog,
                        uploadAuditEntry(ops[p].jobId,
                                         ops[p].totalRecords,
                                         ops[p].processedRecords,
                                         Len(ops[p].errors)))
  /\ \E unlinked \in BOOLEAN :
       IF unlinked /\ ops[p].jobId \in files
         THEN /\ files' = files \ {ops[p].jobId}
              /\ ops' = [ops EXCEPT ![p] =
                   [kind |-> "processFile", pc |-> "done",
                    jobId |-> ops[p].jobId,
                    ret |-> [success |-> TRUE,
                             totalRecords |-> ops[p].totalRecords,
                             processedRecords |-> ops[p].processedRecords,
                             errorRecords |-> Len(ops[p].errors)]]]
         ELSE /\ files' = files
              /\ ops' = [ops EXCEPT ![p] =
                   [kind |-> "processFile", pc |-> "failing",
                    jobId |-> ops[p].jobId, error |-> "unlink"]]
  /\ UNCHANGED <<records, results, resolves, call, uploadJobs, queue>>

\* The awaited store call rejects.  findOne (line 220) is outside the try block
\* and its error leaves the function; an error in the try block (lines
\* 225-329) enters the catch, where the job is assigned 'failed' and its save
\* begins; when that save (line 337) rejects, its error leaves the
\* function.
ProcessFileFail(p) ==
  /\ ops[p].kind = "processFile"
  /\ ops[p].pc \in {"lookup", "begin", "total", "insert", "complete",
                     "notify", "failing"}
  /\ ops' = [ops EXCEPT ![p] =
       IF ops[p].pc \in {"lookup", "failing"}
         THEN [kind |-> "processFile", pc |-> "failed",
               jobId |-> ops[p].jobId, error |-> "store"]
         ELSE [kind |-> "processFile", pc |-> "failing",
               jobId |-> ops[p].jobId, error |-> "store"]]
  /\ UNCHANGED <<records, results, auditLog, resolves, call, uploadJobs,
                 queue, files>>

\* Lines 337-339: the catch's save stores status 'failed' and the error
\* caught is rethrown.
ProcessFileFailed(p) ==
  /\ ops[p].kind = "processFile"
  /\ ops[p].pc = "failing"
  /\ uploadJobs' = setJobStatus(ops[p].jobId, "failed")
  /\ ops' = [ops EXCEPT ![p] =
       [kind |-> "processFile", pc |-> "failed", jobId |-> ops[p].jobId,
        error |-> ops[p].error]]
  /\ UNCHANGED <<records, results, auditLog, resolves, call, queue, files>>

\* The steps of a processFile call in progress.
ProcessFileStep(p) ==
  \/ ProcessFileFind(p)
  \/ ProcessFileBegin(p)
  \/ ProcessFileParse(p)
  \/ ProcessFileTotal(p)
  \/ ProcessFileInsert(p)
  \/ ProcessFileComplete(p)
  \/ ProcessFileAudit(p)
  \/ ProcessFileFail(p)
  \/ ProcessFileFailed(p)

\* Uploads handled concurrently by the request handlers, and the
\* processing of the file uploaded first, which the queue calls one at a
\* time and any number of times, here while the audit log has fewer than
\* MaxJobs entries.
InitUpload ==
  /\ records = <<>>
  /\ results = <<>>
  /\ auditLog = <<>>
  /\ ops = [p \in Procs |-> IdleOp]
  /\ resolves = 0
  /\ call = NoCall
  /\ uploadJobs = <<>>
  /\ queue = IdleQueue
  /\ files = {}

NextUpload ==
  \/ \E p \in Procs :
       \/ \E fileHash \in FileHashes : UploadStart(p, fileHash)
       \/ UploadCheck(p)
       \/ UploadCreate(p)
       \/ UploadFail(p)
  \/ /\ uploadJobs # <<>>
     /\ Len(auditLog) < MaxJobs
     /\ ProcessFileStart(First, uploadJobs[1].id)
  \/ ProcessFileStep(First)

SpecUpload == InitUpload /\ [][NextUpload]_vars

(***************************************************************************)
(* The dispatch paths: the in-memory queue (SimpleQueue), which processes  *)
(* an uploaded file and then reconciles it, and the request handlers of    *)
(* POST /trigger/:uploadJobId and PUT /results/:id/resolve.                *)
(* No route calls addReconciliationJob (part_003:87): on these paths a      *)
(* reconcile-records job comes from a process-file job alone.  The queue   *)
(* on its own, further below, is given jobs through both exports.          *)
(***************************************************************************)
\* The queue runs its jobs in one process, the routes in another.
Worker == First

Handler == CHOOSE p \in Procs : p # Worker /\ \A q \in Procs \ {Worker} : p <= q


\* jobs.find(job => job.status === 'waiting'): its place, 0 for none.
firstWaiting(jobs) ==
  LET waiting == {i \in 1..Len(jobs) : jobs[i].status = "waiting"}
  IN IF waiting = {} THEN 0
     ELSE CHOOSE i \in waiting : \A j \in waiting : i <= j

\* The job the queue is processing.
currentJob ==
  CHOOSE i \in 1..Len(queue.jobs) : queue.jobs[i].status = "processing"

\* processNext without the test of the processing flag.
processNextWithoutFlag(q) ==
  IF firstWaiting(q.jobs) = 0 THEN q
  ELSE [q EXCEPT !.jobs[firstWaiting(q.jobs)].status = "processing",
                 !.processing = TRUE]

\* processNext, lines 23-30, up to its first await: nothing when a job is
\* being processed or none is waiting, else the first waiting job is
\* taken.
processNext(q) ==
  IF q.processing \/ firstWaiting(q.jobs) = 0 THEN q
  ELSE [q EXCEPT !.jobs[firstWaiting(q.jobs)].status = "processing",
                 !.processing = TRUE]

\* add, lines 8-21: the job is pushed and processNext is called.
add(q, jobType, data) ==
  processNext([q EXCEPT !.jobs =
                 Append(@, [type |-> jobType, data |-> data,
                            status |-> "waiting"])])

\* The callback of setTimeout(() => this.processNext(), 1000) runs.
QueueTimer ==
  /\ queue.timers > 0
  /\ queue' = processNext([queue EXCEPT !.timers = @ - 1])
  /\ UNCHANGED <<records, results, auditLog, ops, resolves, call,
                 uploadJobs, files>>

\* Lines 32-56: the work of the job taken, processFile or
\* reconcileUploadJob with the ids as strings, up to its first await.
QueueRunJob ==
  /\ queue.processing
  /\ ops[Worker] = IdleOp
  /\ LET job == queue.jobs[currentJob]
     IN IF job.type = "process-file"
          THEN ProcessFileStart(Worker, job.data.jobId)
          ELSE ReconcileStart(Worker, IdArg("string", job.data.uploadJobId),
                              job.data.userId)

\* Lines 35-40: processFile has returned a summary with success and
\* processedRecords > 0; the upload job is looked up (findOne) and awaited.
QueueFindJob ==
  /\ queue.processing
  /\ ops[Worker].kind = "processFile"
  /\ ops[Worker].pc = "done"
  /\ ops[Worker].ret.success
  /\ ops[Worker].ret.processedRecords > 0
  /\ ops' = [ops EXCEPT ![Worker] =
       [kind |-> "processNext", pc |-> "findOne", jobId |-> ops[Worker].jobId,
        ret |-> ops[Worker].ret]]
  /\ UNCHANGED <<records, results, auditLog, resolves, call, uploadJobs,
                 queue, files>>

\* Lines 40-43: findOne answers with the job; add pushes a
\* reconcile-records job, which waits as this job is still being
\* processed, and its return is awaited.
QueueAddJob ==
  /\ queue.processing
  /\ ops[Worker].pc = "findOne"
  /\ jobIndex(ops[Worker].jobId) # 0
  /\ queue' = add(queue, "reconcile-records",
                  [uploadJobId |-> ops[Worker].jobId, userId |-> "U1"])
  /\ ops' = [ops EXCEPT ![Worker].pc = "add"]
  /\ UNCHANGED <<records, results, auditLog, resolves, call, uploadJobs, files>>

\* QueueFinishJob without the setTimeout that calls processNext again.
QueueFinishJobWithoutTimer ==
  /\ queue.processing
  /\ \/ ops[Worker].pc \in {"findOne", "add", "failed"}
     \/ ops[Worker].pc = "done" /\ ops[Worker].kind = "reconcile"
     \/ /\ ops[Worker].pc = "done"
        /\ ops[Worker].kind = "processFile"
        /\ ~(ops[Worker].ret.success /\ ops[Worker].ret.processedRecords > 0)
  /\ \E rejects \in BOOLEAN :
       /\ ops[Worker].pc = "findOne" =>
            rejects \/ jobIndex(ops[Worker].jobId) = 0
       /\ rejects => ops[Worker].pc = "findOne"
       /\ queue' = [queue EXCEPT
                       !.jobs[currentJob].status =
                          IF ops[Worker].pc = "failed" \/ rejects
                            THEN "failed" ELSE "completed",
                       !.processing = FALSE]
  /\ ops' = [ops EXCEPT ![Worker] = IdleOp]
  /\ UNCHANGED <<records, results, auditLog, resolves, call, uploadJobs, files>>

\* Lines 36-70: the rest of processNext, which awaits nothing more.  The
\* work has returned without a reconciliation due or has thrown, the
\* findOne of line 40 rejects or finds no job, or the add of line 43 has
\* returned: the job is marked 'completed', or 'failed' in the catch, the
\* queue is free again and processNext is scheduled.
QueueFinishJob ==
  /\ queue.processing
  /\ \/ ops[Worker].pc \in {"findOne", "add", "failed"}
     \/ ops[Worker].pc = "done" /\ ops[Worker].kind = "reconcile"
     \/ /\ ops[Worker].pc = "done"
        /\ ops[Worker].kind = "processFile"
        /\ ~(ops[Worker].ret.success /\ ops[Worker].ret.processedRecords > 0)
  /\ \E rejects \in BOOLEAN :
       /\ ops[Worker].pc = "findOne" =>
            rejects \/ jobIndex(ops[Worker].jobId) = 0
       /\ rejects => ops[Worker].pc = "findOne"
       /\ queue' = [queue EXCEPT
                       !.jobs[currentJob].status =
                          IF ops[Worker].pc = "failed" \/ rejects
                            THEN "failed" ELSE "completed",
                       !.processing = FALSE,
                       !.timers = @ + 1]
  /\ ops' = [ops EXCEPT ![Worker] = IdleOp]
  /\ UNCHANGED <<records, results, auditLog, resolves, call, uploadJobs, files>>

\* POST /trigger/:uploadJobId, lines 287-295: the request, up to the await
\* of UploadJob.findById.
TriggerStart(p, uploadJobId, userId) ==
  /\ ~Running(p)
  /\ ops' = [ops EXCEPT ![p] =
       [kind |-> "trigger", pc |-> "job", uploadJobId |-> uploadJobId,
        userId |-> userId]]
  /\ UNCHANGED <<records, results, auditLog, resolves, call, uploadJobs,
                 queue, files>>

\* Lines 295-309: findById returns; 404 without a job, 400 when the job is
\* not 'completed', else reconcileUploadJob is called with the id as the
\* string of the request.
TriggerFind(p) ==
  /\ ops[p].kind = "trigger"
  /\ ops[p].pc = "job"
  /\ LET uploadJobId == ops[p].uploadJobId
         rejected(status) ==
           [kind |-> "trigger", pc |-> "rejected",
            uploadJobId |-> uploadJobId, status |-> status]
     IN ops' = [ops EXCEPT ![p] =
          IF jobIndex(uploadJobId) = 0 THEN rejected(404)
          ELSE IF uploadJobs[jobIndex(uploadJobId)].status # "completed"
            THEN rejected(400)
          ELSE reconcileCall(IdArg("string", uploadJobId), ops[p].userId)]
  /\ UNCHANGED <<records, results, auditLog, resolves, call, uploadJobs,
                 queue, files>>

\* Lines 316-319: findById rejects: the 500 answer of the catch.
TriggerFail(p) ==
  /\ ops[p].kind = "trigger"
  /\ ops[p].pc = "job"
  /\ ops' = [ops EXCEPT ![p] =
       [kind |-> "trigger", pc |-> "failed",
        uploadJobId |-> ops[p].uploadJobId, status |-> 500,
        error |-> "store"]]
  /\ UNCHANGED <<records, results, auditLog, resolves, call, uploadJobs,
                 queue, files>>

\* The requests a specification lets the client of POST /trigger send:
\* those whose run fits in MaxResults beside what the runs of the queue's
\* unfinished jobs may still store, a result for each transaction id of
\* the job's file (a process-file job that has added its reconcile-records
\* job stores no more).  It guards the client's choice in the next-state
\* relations and no step of the code: a request accepted runs to its end,
\* and so does every job of the queue.
TriggerWithinResults(uploadJobId) ==
  LET docs == insertedRecords(uploadJobId)
      batch == Cardinality({docs[k].transactionId : k \in 1..Len(docs)})
      unfinished == {k \in 1..Len(queue.jobs) :
                       /\ queue.jobs[k].status \in {"waiting", "processing"}
                       /\ ~(queue.jobs[k].status = "processing"
                              /\ ops[Worker].pc = "add")}
      stored == IF ops[Worker].kind # "reconcile" THEN 0
                ELSE IF Running(Worker)
                  THEN Len(ops[Worker].reconciliationResults)
                ELSE IF ops[Worker].pc = "done"
                  THEN ops[Worker].ret.totalRecords
                ELSE 0
  IN Len(results) + (Cardinality(unfinished) + 1) * batch - stored
       <= MaxResults

\* The system records of the store: none, or one with the transaction id
\* and amount of the files' row T1 and another reference number.
DispatchStores ==
  {s \in SeqsOver(SystemDomain, 100, 1) :
     s # <<>> => (s[1].amount = 100 /\ s[1].referenceNumber = "R2")}

\* File h1 has been uploaded as job J1 and its column mapping posted.
InitDispatch ==
  /\ records \in DispatchStores
  /\ results = <<>>
  /\ auditLog = <<>>
  /\ ops = [p \in Procs |-> IdleOp]
  /\ resolves = 0
  /\ call = NoCall
  /\ uploadJobs = <<UploadJob("J1", "h1", "processing")>>
  /\ queue = add(IdleQueue, "process-file", [jobId |-> "J1"])
  /\ files = {"J1"}

NextDispatch ==
  \/ QueueTimer
  \/ QueueRunJob
  \/ QueueFindJob
  \/ QueueAddJob
  \/ QueueFinishJob
  \/ ProcessFileStep(Worker)
  \/ /\ TriggerWithinResults("J1")
     /\ TriggerStart(Handler, "J1", "U2")
  \/ TriggerFind(Handler)
  \/ TriggerFail(Handler)
  \/ \E p \in {Worker, Handler} :
       \/ ReconcileStep(p)
       \/ ReconcileFail(p)
  \/ \E id \in 1..Len(results),
        resolution \in {r \in Resolutions : /\ r.matchStatus = "matched"
                                             /\ r.systemRecordId = NoId} :
       ResolveStart(Handler, id, resolution, "U2")
  \/ ResolveLoad(Handler)
  \/ ResolveSave(Handler)
  \/ ResolveAudit(Handler)
  \/ ResolveFail(Handler)

SpecDispatch == InitDispatch /\ [][NextDispatch]_vars

(***************************************************************************)
(* Properties of reconcileUploadJob                                        *)
(***************************************************************************)
\* A step in which the store call that process p awaits at pc returns, that
\* is, does not reject.
Answers(p, pc) ==
  /\ ops[p].pc = pc
  /\ ops'[p] # ops[p]
  /\ ~(ops'[p].pc = "failed" /\ ops'[p].error = "store")

RecordById(id) == records[CHOOSE i \in 1..Len(records) : records[i].id = id]

SystemRecords == {records[i] : i \in {j \in 1..Len(records) : records[j].isSystemRecord}}

\* The uploaded records of u's batch that carry u's transaction id.
GroupSize(u) ==
  Cardinality({i \in 1..Len(records) :
                 /\ ~records[i].isSystemRecord
                 /\ records[i].uploadJobId = u.uploadJobId
                 /\ records[i].transactionId = u.transactionId})

\* Process p has saved the result of its current record and not yet
\* written the audit entry.
JustSaved(p) == ops[p].kind = "reconcile" /\ ops[p].pc = "audit"

CurrentRecord(p) == ops[p].uploadedRecords[ops[p].i]

SavedResult(p) ==
  results[ops[p].reconciliationResults[Len(ops[p].reconciliationResults)].id]

\* C1: after reconcileUploadJob calls alone no result is 'matched' and no
\* score exceeds 2.8/3; a record whose chosen candidate equals it on
\* transaction id, amount and reference number has score 2.8/3 and, when it
\* is not a duplicate, status 'partially_matched'.
C1_AllEqualScoresPartial ==
  \A i \in 1..Len(results) :
    LET r == results[i]
        u == RecordById(r.uploadedRecordId)
    IN /\ r.matchStatus # "matched"
       /\ r.matchScore * 30 <= 28 * ScoreUnit
       /\ (/\ r.systemRecordId # NoId
           /\ RecordById(r.systemRecordId).transactionId = u.transactionId
           /\ RecordById(r.systemRecordId).amount = u.amount
           /\ RecordById(r.systemRecordId).referenceNumber = u.referenceNumber)
          => /\ r.matchScore * 30 = 28 * ScoreUnit
             /\ GroupSize(u) = 1 => r.matchStatus = "partially_matched"

\* The store of scenario B: s has u's transaction id and reference number
\* and an amount 3% off, and no other system record shares either with u.
OffByThreePercent(u, s) ==
  /\ s.isSystemRecord
  /\ s.transactionId = u.transactionId
  /\ s.referenceNumber = u.referenceNumber
  /\ s.amount # u.amount
  /\ \/ s.amount * 100 = u.amount * 103
     \/ s.amount * 100 = u.amount * 97
  /\ \A o \in SystemRecords \ {s} :
       /\ o.transactionId # u.transactionId
       /\ o.referenceNumber # u.referenceNumber

\* C6 as claimed: such a record's result has amount contribution 0.5,
\* matchScore 2.3/3 and status 'partially_matched'.
C6_OffByThreePartiallyMatched ==
  \A p \in Procs : \A s \in SystemRecords :
    (JustSaved(p) /\ OffByThreePercent(CurrentRecord(p), s)) =>
      LET r == SavedResult(p)
      IN /\ AmountPointsIn(r.matchScore, CurrentRecord(p), s) = HalfWeight
         /\ r.matchScore * 30 = 23 * ScoreUnit
         /\ r.matchStatus = "partially_matched"

\* C6 as amended: findSystemMatches returns no candidate for such a record
\* (the amount is neither equal nor within 2%), so its result has score 0,
\* no system record and status 'not_matched' ('duplicate' when its
\* transaction id is a detected duplicate); calculateMatchScore applied to
\* the pair itself gives amount contribution 0.5 and 2.3/3 when the
\* amounts are positive, and contribution 1 and 2.8/3 when they are
\* negative (the variance is then negative); determineMatchStatus
\* classifies either score 'partially_matched'.
C6_OffByThreeNotMatched ==
  \A p \in Procs : \A s \in SystemRecords :
    (JustSaved(p) /\ OffByThreePercent(CurrentRecord(p), s)) =>
      LET r == SavedResult(p)
          u == CurrentRecord(p)
      IN /\ ops[p].systemMatches = <<>>
         /\ r.matchScore = 0
         /\ r.systemRecordId = NoId
         /\ r.matchStatus \in {"not_matched", "duplicate"}
         /\ GroupSize(u) = 1 => r.matchStatus = "not_matched"
         /\ u.amount > 0 =>
              /\ calculateMatchScore(u, s) * 30 = 23 * ScoreUnit
              /\ AmountPointsIn(calculateMatchScore(u, s), u, s) = HalfWeight
         /\ u.amount < 0 =>
              /\ calculateMatchScore(u, s) * 30 = 28 * ScoreUnit
              /\ AmountPointsIn(calculateMatchScore(u, s), u, s) = FullWeight
         /\ determineMatchStatus(calculateMatchScore(u, s), <<>>, 1)
              = "partially_matched"

\* The result of an uploaded record of amount 100 beside the system
\* record of amount 103 with its transaction id and reference number.
C6_Witness ==
  \E s \in SystemRecords :
    /\ JustSaved(First)
    /\ OffByThreePercent(CurrentRecord(First), s)
    /\ CurrentRecord(First).amount = 100
    /\ s.amount = 103
    /\ SavedResult(First).matchStatus = "not_matched"

\* C7: a non-duplicate uploaded record for which findSystemMatches returned
\* no candidate gets a persisted result with matchScore 0, no system
\* record, no differences and status 'not_matched'.
C7_NoCandidateNotMatched ==
  \A p \in Procs :
    (/\ JustSaved(p)
     /\ ops[p].systemMatches = <<>>
     /\ GroupSize(CurrentRecord(p)) = 1) =>
      LET r == SavedResult(p)
      IN /\ r.uploadedRecordId = CurrentRecord(p).id
         /\ r.matchScore = 0
         /\ r.systemRecordId = NoId
         /\ r.differences = <<>>
         /\ r.matchStatus = "not_matched"

C7_Witness ==
  /\ JustSaved(First)
  /\ ops[First].systemMatches = <<>>
  /\ GroupSize(CurrentRecord(First)) = 1
  /\ SystemRecords # {}
  /\ SavedResult(First).matchStatus = "not_matched"

(***************************************************************************)
(* Properties of resolveManually                                           *)
(***************************************************************************)
Resolved(p) == ops[p].kind = "resolve" /\ ops[p].pc = "done"

\* C10: a successful resolveManually leaves the result with the status and
\* notes of the resolution, the override flag set and the actor as
\* resolver, and the audit log one entry longer: a 'resolve' entry of a
\* human source for that actor and result, whose oldValue is the result's
\* status, override flag and notes from before the call and whose newValue
\* holds them as they are after it.
C10_ResolveSetsAndAudits ==
  \A p \in Procs :
    Resolved(p) =>
      LET op == ops[p]
          r == results[op.reconciliationId]
          e == auditLog[Len(auditLog)]
      IN /\ r.matchStatus = op.resolution.matchStatus
         /\ r.isManuallyResolved
         /\ r.resolvedBy = op.userId
         /\ r.notes = op.resolution.notes
         /\ Len(auditLog) = op.logged + 1
         /\ e.entityType = "reconciliation_result"
         /\ e.entityId = op.reconciliationId
         /\ e.action = "resolve"
         /\ e.source # "system"
         /\ e.userId = op.userId
         /\ e.oldValue = [matchStatus |-> op.loaded.matchStatus,
                          isManuallyResolved |-> op.loaded.isManuallyResolved,
                          notes |-> op.loaded.notes]
         /\ e.newValue.matchStatus = r.matchStatus
         /\ e.newValue.isManuallyResolved = r.isManuallyResolved
         /\ e.newValue.notes = r.notes

C10_Witness ==
  /\ Resolved(First)
  /\ ~ops[First].loaded.isManuallyResolved
  /\ ops[First].loaded.matchStatus = "partially_matched"
  /\ ops[First].resolution.matchStatus = "matched"
  /\ ops[First].resolution.notes = "checked"
  /\ results[ops[First].reconciliationId].matchStatus = "matched"
  /\ Len(auditLog) = 2

\* A step that writes the document of a resolveManually call to the store.
Saving(p) ==
  /\ ops[p].kind = "resolve"
  /\ ops[p].pc = "save"
  /\ ops'[p].pc = "log"

\* C11: resolveManually leaves the uploaded record id, match score,
\* differences, batch id and rule snapshot of the resolved result unchanged,
\* leaves the chosen system record unchanged when the resolution supplies
\* none, leaves every field the resolution does not supply unchanged (the
\* notes when it supplies no notes), and changes no other result and no
\* record.
C11_ResolveFrame ==
  [][ /\ records' = records
      /\ Len(results') = Len(results)
      /\ \A p \in Procs :
           Saving(p) =>
             LET id == ops[p].reconciliationId
                 resolution == ops[p].resolution
             IN /\ \A f \in {"uploadedRecordId", "matchScore", "differences",
                              "uploadJobId", "reconciliationRules"} :
                     results'[id][f] = results[id][f]
                /\ resolution.systemRecordId = NoId =>
                     results'[id].systemRecordId = results[id].systemRecordId
                /\ resolution.notes = NoNotes =>
                     results'[id].notes = results[id].notes
                /\ \A i \in 1..Len(results) :
                     i # id => results'[i] = results[i]
      /\ (\A p \in Procs : ~Saving(p)) => results' = results ]_vars

\* A step in which process p begins a resolveManually call.
ResolveBegins(p) ==
  /\ resolves' = resolves + 1
  /\ ops'[p].kind = "resolve"
  /\ ops'[p].pc = "load"
  /\ \A q \in Procs \ {p} : ops'[q] = ops[q]

\* C12: resolveManually called with an id that no result has fails with
\* the not-found error when findById returns, changes no result and appends
\* no audit entry.
C12_ResolveNotFound ==
  [][ \A p \in Procs :
        /\ ResolveBegins(p) => (results' = results /\ auditLog' = auditLog)
        /\ (/\ ops[p].kind = "resolve"
            /\ Answers(p, "load")
            /\ ops[p].reconciliationId \notin 1..Len(results))
             => /\ ops'[p].pc = "failed"
                /\ ops'[p].error = "Reconciliation result not found"
                /\ results' = results
                /\ auditLog' = auditLog
                /\ ~Running(p)' ]_vars

C12_Witness ==
  /\ ops[First].kind = "resolve"
  /\ ops[First].pc = "failed"
  /\ ops[First].error = "Reconciliation result not found"
  /\ ops[First].reconciliationId = Len(results) + 1
  /\ Len(results) > 0
  /\ Len(auditLog) = Len(results)

(***************************************************************************)
(* Failures and repetition of reconcileUploadJob                           *)
(***************************************************************************)
\* A step in which process p begins a reconcileUploadJob call.
ReconcileBegins(p) ==
  /\ ~Running(p)
  /\ ops'[p] # ops[p]
  /\ ops'[p].kind = "reconcile"

\* The uploaded (non-system) records that carry the batch id.
BatchRecords(hex) ==
  {i \in 1..Len(records) :
     records[i].uploadJobId = hex /\ ~records[i].isSystemRecord}

\* C13: reconcileUploadJob called for a batch without uploaded records
\* fails with the no-records error when Record.find returns, persists no
\* result and appends no audit entry, also when system records carry the
\* batch id.
C13_NoRecordsError ==
  [][ \A p \in Procs :
        /\ ReconcileBegins(p) => (results' = results /\ auditLog' = auditLog)
        /\ (/\ ops[p].kind = "reconcile"
            /\ Answers(p, "find")
            /\ BatchRecords(ops[p].uploadJobId.hex) = {})
             => /\ ops'[p].pc = "failed"
                /\ ops'[p].error
                     = "No uploaded records found for reconciliation"
                /\ results' = results
                /\ auditLog' = auditLog
                /\ ~Running(p)' ]_vars

C13_Witness ==
  /\ ops[First].kind = "reconcile"
  /\ ops[First].pc = "failed"
  /\ ops[First].error = "No uploaded records found for reconciliation"
  /\ ops[First].uploadJobId.hex = "J0"
  /\ \E s \in SystemRecords : s.uploadJobId = "J0"
  /\ Len(results) > 0
  /\ Len(auditLog) = Len(results)

\* A step in which a store operation of the loop of a running
\* reconcileUploadJob call rejects: one of the two queries of
\* findSystemMatches, the save of the result or the creation of its audit
\* entry.
ReconcileFails(p) ==
  /\ ops[p].kind = "reconcile"
  /\ ops[p].pc \in {"exact", "partial", "store", "audit"}
  /\ ops'[p].pc = "failed"

\* C14: when a store operation fails while reconcileUploadJob processes its
\* i-th record the call fails with that error at once: the results and
\* audit entries persisted for the records before it stay, and nothing is
\* created for the records after it.
C14_FailureMidLoop ==
  [][ \A p \in Procs :
        ReconcileFails(p) =>
          LET op == ops[p]
              created == op.reconciliationResults
          IN /\ ops'[p].error = "store"
             /\ ~Running(p)'
             /\ results' = results
             /\ auditLog' = auditLog
             /\ Len(created) = IF op.pc = "audit" THEN op.i ELSE op.i - 1
             /\ \A k \in 1..Len(created) :
                  /\ created[k].uploadedRecordId = op.uploadedRecords[k].id
                  /\ \E j \in 1..Len(results') : results'[j] = created[k]
             /\ \A k \in 1..(op.i - 1) :
                  \E j \in 1..Len(auditLog') :
                    /\ auditLog'[j].action = "reconcile"
                    /\ auditLog'[j].entityId = created[k].id ]_vars

C14_Witness ==
  /\ ops[First].kind = "reconcile"
  /\ ops[First].pc = "failed"
  /\ ops[First].error = "store"
  /\ Cardinality(BatchRecords("J1")) = 2
  /\ Len(results) = 1
  /\ Len(auditLog) = 1

\* The results stored for the uploaded record with the given id.
ResultsOf(id) == {j \in 1..Len(results) : results[j].uploadedRecordId = id}

\* The audit entries of the reconciliation runs.
ReconcileEntries ==
  {j \in 1..Len(auditLog) : auditLog[j].action = "reconcile"}

\* C15: reconcileUploadJob never replaces: a successful call on a batch of
\* n uploaded records adds n new results, one per record, and leaves every
\* result stored before, manually resolved or not, as it was; after k
\* successful calls every uploaded record has k results.
C15_ReconcileAppends ==
  /\ [](Quiet =>
         \A i \in BatchRecords("J1") :
           Cardinality(ResultsOf(records[i].id))
               * Cardinality(BatchRecords("J1"))
             = Cardinality(ReconcileEntries))
  /\ [][ \A p \in Procs :
          ((ops[p].kind = "reconcile" /\ Running(p)) \/ ReconcileBegins(p))
            => /\ Len(results') >= Len(results)
               /\ SubSeq(results', 1, Len(results)) = results
               /\ (ops[p].pc = "audit" /\ ops'[p].pc = "done") =>
                    LET created == ops[p].reconciliationResults
                        batch == BatchRecords(ops[p].uploadJobId.hex)
                    IN /\ Len(created) = Cardinality(batch)
                       /\ ops'[p].ret.totalRecords = Cardinality(batch)
                       /\ \A i \in batch :
                            Cardinality({k \in 1..Len(created) :
                              created[k].uploadedRecordId = records[i].id})
                              = 1
                       /\ SubSeq(results', Len(results') - Len(created) + 1,
                                 Len(results')) = created ]_vars

C15_Witness ==
  /\ Quiet
  /\ ops[First].kind = "reconcile"
  /\ ops[First].pc = "done"
  /\ Len(results) = 2
  /\ results[1].isManuallyResolved
  /\ results[1].notes = "checked"
  /\ ~results[2].isManuallyResolved
  /\ results[2].uploadedRecordId = results[1].uploadedRecordId

(***************************************************************************)
(* Properties of getReconciliationStats                                    *)
(***************************************************************************)
\* The results stored for the batch, and those of them in a status.
BatchResults(hex) == {i \in 1..Len(results) : results[i].uploadJobId = hex}

BatchResultsIn(hex, status) ==
  {i \in BatchResults(hex) : results[i].matchStatus = status}

\* C19: getReconciliationStats(batchId) returns as total the number of
\* results stored for the batch, which is the sum of the four counts; each
\* count is the number of the batch's results currently in that status;
\* accuracy is 0 when total is 0 and otherwise (matched +
\* partially_matched) / total * 100 to two decimals, between 0 and 100.
C19_StatsCountResults ==
  call.fn = "getReconciliationStats" =>
    LET hex == call.uploadJobId.hex
        ret == call.ret
        good == ret.matched + ret.partially_matched
    IN /\ ret.total = Cardinality(BatchResults(hex))
       /\ ret.total = ret.matched + ret.partially_matched
                         + ret.not_matched + ret.duplicate
       /\ \A status \in matchStatuses :
            ret[status] = Cardinality(BatchResultsIn(hex, status))
       /\ ret.total = 0 => ret.accuracy.hundredths = 0
       /\ ret.total > 0 =>
            /\ 2 * Abs(ret.accuracy.hundredths * ret.total
                          - good * AccuracyScale) <= ret.total
            /\ ret.accuracy.hundredths \in 0..AccuracyScale

(***************************************************************************)
(* Properties of the audit log                                             *)
(***************************************************************************)
\* C18: every update and every delete attempted on an audit entry through
\* the AuditLog model is rejected with an error and leaves the entry in
\* place and unchanged.
C18_AuditOperationsRejected ==
  call.fn = "AuditLog" =>
    /\ call.rejected
    /\ call.index \in 1..Len(auditLog)
    /\ auditLog[call.index] = call.entry

(***************************************************************************)
(* Properties of the upload                                                *)
(***************************************************************************)
\* The upload jobs with the given file hash in status 'processing' or
\* 'completed'.
ActiveJobs(fileHash) ==
  {i \in 1..Len(uploadJobs) :
     /\ uploadJobs[i].fileHash = fileHash
     /\ uploadJobs[i].status \in {"processing", "completed"}}

\* C20: an upload whose file hash is that of an upload job in status
\* 'processing' or 'completed' is rejected with 409 and creates no job, so
\* at any time at most one job in those statuses exists per file hash,
\* also when uploads of the same file are handled concurrently.
C20_OneActiveJobPerHash ==
  /\ [](\A fileHash \in FileHashes :
          Cardinality(ActiveJobs(fileHash)) <= 1)
  /\ [][ \A p \in Procs :
          (/\ ops[p].kind = "upload"
           /\ Answers(p, "check")
           /\ ActiveJobs(ops[p].fileHash) # {})
            => /\ ops'[p].pc = "rejected"
               /\ ops'[p].status = 409
               /\ uploadJobs' = uploadJobs ]_vars

(***************************************************************************)
(* Properties of the dispatch paths                                        *)
(***************************************************************************)
\* Process p is executing reconcileUploadJob for the batch.
Reconciling(p, hex) ==
  /\ ops[p].kind = "reconcile"
  /\ Running(p)
  /\ ops[p].uploadJobId.hex = hex

\* C16: in every state reached through the queue and the trigger route
\* each uploaded record has at most one result, and no two executions of
\* reconcileUploadJob for the same upload job are in progress together.
C16_OneResultPerRecord ==
  /\ \A i \in 1..Len(records) :
       ~records[i].isSystemRecord =>
         Cardinality(ResultsOf(records[i].id)) <= 1
  /\ \A p \in Procs : \A q \in Procs \ {p} :
       \A i \in 1..Len(uploadJobs) :
         ~(Reconciling(p, uploadJobs[i].id) /\ Reconciling(q, uploadJobs[i].id))

\* C17: the audit log is append-only under every sequence of
\* reconcileUploadJob, resolveManually and processFile calls, successful
\* or failed: every step keeps every entry, with its content and place,
\* and the number of entries never decreases.
C17_AuditLogAppendOnly ==
  [][ /\ Len(auditLog') >= Len(auditLog)
      /\ SubSeq(auditLog', 1, Len(auditLog)) = auditLog ]_vars

C17_Witness ==
  /\ \A action \in {"upload", "reconcile", "resolve"} :
       \E j \in 1..Len(auditLog) : auditLog[j].action = action
  /\ ops[Handler].kind = "reconcile"
  /\ ops[Handler].pc = "failed"
  /\ ops[Handler].error = "store"

(***************************************************************************)
(* The choice among several candidates: reconciliation runs on a batch of  *)
(* one uploaded record with up to MaxSystem + 1 system records, which may  *)
(* share the record's transaction id, amount or reference number.          *)
(***************************************************************************)
\* A system record has amount 100, the partial tier's bounds 98 and 102,
\* or 0.
InitBestMatch ==
  /\ LET Candidates(id) ==
           {Rec(id, tx, amt, ref, 1, "", dummyJobId(id), TRUE) :
              tx \in TxIds, ref \in Refs, amt \in {0, 98, 100, 102}}
     IN records \in Stores(UploadedDomain, 1, Candidates, MaxSystem + 1)
  /\ results = <<>>
  /\ auditLog = <<>>
  /\ ops = [p \in Procs |-> IdleOp]
  /\ resolves = 0
  /\ call = NoCall
  /\ uploadJobs = StoredJobs
  /\ queue = IdleQueue
  /\ files = {}

NextBestMatch ==
  \/ /\ Quiet
     /\ WithinResults(IdArg("ObjectId", "J1"))
     /\ ReconcileStart(First, IdArg("ObjectId", "J1"), "U1")
  \/ ReconcileStep(First)

SpecBestMatch == InitBestMatch /\ [][NextBestMatch]_vars

\* The scores of the candidates of u, and the place of the first candidate
\* among those with the highest score.
CandidateScores(u, candidates) ==
  [i \in 1..Len(candidates) |-> calculateMatchScore(u, candidates[i])]

FirstBest(scores) ==
  CHOOSE i \in 1..Len(scores) :
    /\ \A j \in 1..Len(scores) : scores[j] <= scores[i]
    /\ \A j \in 1..(i - 1) : scores[j] < scores[i]

\* C21: for each uploaded record the result's system record is the first
\* candidate, in the order findSystemMatches returned them, with the
\* highest calculateMatchScore, and matchScore is that score; a later
\* candidate with an equal score does not replace it; there is no system
\* record and the score is 0 exactly when there is no candidate.
C21_FirstBestCandidate ==
  \A p \in Procs :
    JustSaved(p) =>
      LET u == CurrentRecord(p)
          candidates == ops[p].systemMatches
          scores == CandidateScores(u, candidates)
          r == SavedResult(p)
      IN /\ candidates = findSystemMatches(u)
         /\ candidates # <<>> =>
              /\ r.systemRecordId = candidates[FirstBest(scores)].id
              /\ r.matchScore = scores[FirstBest(scores)]
         /\ (r.systemRecordId = NoId /\ r.matchScore = 0)
              <=> candidates = <<>>
         /\ (r.systemRecordId = NoId \/ r.matchScore = 0)
              => candidates = <<>>

\* Two candidates with equal scores: the first one is chosen; and a store
\* in which the second candidate scores higher is reached too.
C21_Witness ==
  /\ JustSaved(First)
  /\ Len(ops[First].systemMatches) = 2
  /\ LET scores == CandidateScores(CurrentRecord(First),
                                   ops[First].systemMatches)
     IN scores[1] = scores[2]
  /\ SavedResult(First).systemRecordId = ops[First].systemMatches[1].id

\* The 'reconcile' audit entries that refer to the result with the id.
ReconcileEntriesOf(log, id) ==
  {j \in 1..Len(log) : log[j].action = "reconcile" /\ log[j].entityId = id}

\* C22: in reconcileUploadJob each record's result is persisted first, and
\* then one audit entry is appended for it: action 'reconcile', source
\* 'system', the caller's user id as actor, the new result's id as entity
\* and the result's status, score and system record id as newValue; no
\* 'reconcile' entry refers to a result that is not stored, and when a call
\* succeeds each result it created has exactly one 'reconcile' entry.
C22_PersistThenAudit ==
  /\ [](\A j \in ReconcileEntries :
          /\ auditLog[j].entityId \in 1..Len(results)
          /\ results[auditLog[j].entityId].id = auditLog[j].entityId)
  /\ [](\A i \in 1..Len(results) :
          Cardinality(ReconcileEntriesOf(auditLog, results[i].id)) <= 1)
  /\ [][ \A p \in Procs :
          /\ (ops[p].kind = "reconcile" /\ ops[p].pc = "store"
                 /\ ops'[p].pc = "audit") =>
               /\ Len(results') = Len(results) + 1
               /\ SubSeq(results', 1, Len(results)) = results
               /\ results'[Len(results')].uploadedRecordId
                    = CurrentRecord(p).id
               /\ auditLog' = auditLog
               /\ ReconcileEntriesOf(auditLog',
                                     results'[Len(results')].id) = {}
          /\ (ops[p].kind = "reconcile" /\ ops[p].pc = "audit"
                 /\ ops'[p].pc \in {"exact", "done"}) =>
               LET r == SavedResult(p)
                   e == auditLog'[Len(auditLog')]
               IN /\ results' = results
                  /\ r.uploadedRecordId = CurrentRecord(p).id
                  /\ Len(auditLog') = Len(auditLog) + 1
                  /\ SubSeq(auditLog', 1, Len(auditLog)) = auditLog
                  /\ e.action = "reconcile"
                  /\ e.source = "system"
                  /\ e.userId = ops[p].userId
                  /\ e.entityId = r.id
                  /\ e.newValue = [matchStatus |-> r.matchStatus,
                                   matchScore |-> r.matchScore,
                                   systemRecordId |-> r.systemRecordId]
          /\ (ops[p].kind = "reconcile" /\ ops[p].pc = "audit"
                 /\ ops'[p].pc = "done") =>
               LET created == ops[p].reconciliationResults
               IN /\ Len(created) = Len(ops[p].uploadedRecords)
                  /\ \A k \in 1..Len(created) :
                       Cardinality(ReconcileEntriesOf(auditLog',
                                                      created[k].id)) = 1
        ]_vars

C22_Witness ==
  /\ ops[First].kind = "reconcile"
  /\ ops[First].pc = "done"
  /\ Cardinality(BatchRecords("J1")) = 2
  /\ Len(results) = 2
  /\ \A i \in 1..2 : ReconcileEntriesOf(auditLog, i) = {i}
  /\ auditLog[2].newValue.matchStatus = "not_matched"
  /\ auditLog[1].newValue.matchStatus = "partially_matched"

(***************************************************************************)
(* Completeness of the audit trail                                         *)
(***************************************************************************)
\* The 'resolve' audit entries that refer to the result with the id.
ResolveEntriesOf(log, id) ==
  {j \in 1..Len(log) : log[j].action = "resolve" /\ log[j].entityId = id}

\* C23: whenever no operation is in progress, also after an operation that
\* a failed store write aborted, every stored result has a 'reconcile'
\* audit entry, and every result with the override flag has a 'resolve'
\* entry whose newValue carries the status that resolution wrote.
C23_AuditTrailComplete ==
  Quiet =>
    \A i \in 1..Len(results) :
      /\ ReconcileEntriesOf(auditLog, results[i].id) # {}
      /\ results[i].isManuallyResolved =>
           \E j \in ResolveEntriesOf(auditLog, results[i].id) :
             auditLog[j].newValue.matchStatus = results[i].matchStatus

(***************************************************************************)
(* Properties of processFile                                               *)
(***************************************************************************)
\* The uploaded records of a store that carry the batch id, and those of
\* them with the transaction id.
JobRecords(store, jobId) ==
  {i \in 1..Len(store) :
     store[i].uploadJobId = jobId /\ ~store[i].isSystemRecord}

JobRecordsWith(store, jobId, tx) ==
  {i \in JobRecords(store, jobId) : store[i].transactionId = tx}

InitEndToEnd ==
  /\ records \in DispatchStores
  /\ results = <<>>
  /\ auditLog = <<>>
  /\ ops = [p \in Procs |-> IdleOp]
  /\ resolves = 0
  /\ call = NoCall
  /\ \E fileHash \in FileHashes :
       uploadJobs = <<UploadJob("J1", fileHash, "processing")>>
  /\ queue = add(IdleQueue, "process-file", [jobId |-> "J1"])
  /\ files = {"J1"}

NextEndToEnd ==
  \/ QueueTimer
  \/ QueueRunJob
  \/ QueueFindJob
  \/ QueueAddJob
  \/ QueueFinishJob
  \/ ProcessFileStep(Worker)
  \/ /\ TriggerWithinResults("J1")
     /\ TriggerStart(Handler, "J1", "U2")
  \/ TriggerFind(Handler)
  \/ TriggerFail(Handler)
  \/ \E p \in {Worker, Handler} :
       \/ ReconcileStep(p)
       \/ ReconcileFail(p)

SpecEndToEnd == InitEndToEnd /\ [][NextEndToEnd]_vars

\* C25: with the unique index on (transaction id, upload job id) in force,
\* findDuplicates returns no group for any batch, whichever way the id is
\* passed, and no result reconcileUploadJob creates has status 'duplicate';
\* as 'matched' is out of reach too, every result created automatically is
\* 'partially_matched' or 'not_matched'.
C25_NoDuplicateStatus ==
  /\ \A uploadJobId \in JobArgs : findDuplicates(uploadJobId) = {}
  /\ \A p \in Procs :
       (ops[p].kind = "reconcile" /\ Running(p)) => ops[p].duplicates = {}
  /\ \A i \in 1..Len(results) :
       results[i].matchStatus \in {"partially_matched", "not_matched"}

\* The file with two rows of one transaction id has been processed and
\* reconciled: two records, two results, one of each status.
C25_Witness ==
  /\ Quiet
  /\ uploadJobs[1].fileHash = "h2"
  /\ Cardinality(JobRecords(records, "J1")) = 2
  /\ Len(results) = 2
  /\ \E i \in 1..2 : results[i].matchStatus = "partially_matched"
  /\ \E i \in 1..2 : results[i].matchStatus = "not_matched"

(***************************************************************************)
(* SimpleQueue on its own: process-file jobs and reconcile-records jobs   *)
(* are added for two uploads, J1 (one valid row) and J2 (no valid row), at *)
(* any time and more than once, and the queue runs them and the            *)
(* reconcile-records jobs that the process-file jobs bring.                *)
(***************************************************************************)
InitQueue ==
  /\ records \in DispatchStores
  /\ results = <<>>
  /\ auditLog = <<>>
  /\ ops = [p \in Procs |-> IdleOp]
  /\ resolves = 0
  /\ call = NoCall
  /\ uploadJobs =
       [i \in 1..2 |->
          UploadJob(JobIds[i], IF i = 1 THEN "h1" ELSE "h0", "processing")]
  /\ queue = IdleQueue
  /\ files = {JobIds[i] : i \in 1..2}

\* POST /mapping/:jobId, line 185, adds a process-file job for an upload,
\* as often as it is called: here while fewer than MaxJobs of the queue's
\* jobs were added through the exports (the reconcile-records job that
\* processNext adds is the one of user U1).
AddFileProcessingJob ==
  \E i \in 1..Len(uploadJobs) :
    /\ Len(SelectSeq(queue.jobs,
                      LAMBDA job : \/ job.type = "process-file"
                                   \/ job.data.userId # "U1")) < MaxJobs
    /\ queue' = add(queue, "process-file", [jobId |-> uploadJobs[i].id])
    /\ UNCHANGED <<records, results, auditLog, ops, resolves, call,
                   uploadJobs, files>>

\* addReconciliationJob(data), line 87, adds a reconcile-records job for
\* the upload its caller names, as often as it is called: here for user
\* U2 and while fewer than MaxJobs jobs were added through the exports.
AddReconciliationJob ==
  \E i \in 1..Len(uploadJobs), userId \in {"U2"} :
    /\ Len(SelectSeq(queue.jobs,
                      LAMBDA job : \/ job.type = "process-file"
                                   \/ job.data.userId # "U1")) < MaxJobs
    /\ queue' = add(queue, "reconcile-records",
                    [uploadJobId |-> uploadJobs[i].id, userId |-> userId])
    /\ UNCHANGED <<records, results, auditLog, ops, resolves, call,
                   uploadJobs, files>>

\* A step of the work of the job being processed.
HandlerStep ==
  \/ ProcessFileStep(Worker)
  \/ ReconcileStep(Worker)
  \/ ReconcileFail(Worker)

NextQueue ==
  \/ AddFileProcessingJob
  \/ AddReconciliationJob
  \/ QueueTimer
  \/ QueueRunJob
  \/ QueueFindJob
  \/ QueueAddJob
  \/ QueueFinishJob
  \/ HandlerStep

SpecQueue == InitQueue /\ [][NextQueue]_vars

\* The queue's own steps happen when they can: timers fire, an awaited
\* call is begun and resumed, and the work of a job goes on until it
\* returns or throws.
SpecQueueFair ==
  /\ InitQueue
  /\ [][NextQueue]_vars
  /\ WF_vars(QueueTimer)
  /\ WF_vars(QueueRunJob)
  /\ WF_vars(QueueFindJob)
  /\ WF_vars(QueueAddJob)
  /\ WF_vars(QueueFinishJob)
  /\ WF_vars(HandlerStep)

(***************************************************************************)
(* Properties of SimpleQueue                                               *)
(***************************************************************************)
Finished == {"completed", "failed"}

\* The job at place i of the queue begins in this step.
JobStarts(i) ==
  /\ queue'.jobs[i].status = "processing"
  /\ i <= Len(queue.jobs) => queue.jobs[i].status = "waiting"

\* C26: SimpleQueue runs its jobs one at a time in the order they were
\* added: at most one job is 'processing', a job starts only when every
\* job added before it is 'completed' or 'failed', a status only moves
\* waiting -> processing -> completed or failed; the job that processNext
\* adds for a process-file job is the reconcile-records job of that job's
\* upload, added only when processFile returned with processedRecords > 0,
\* behind every job of the queue and 'waiting' while the process-file job
\* is still 'processing', so that it starts only after the process-file
\* job has finished, which then ends 'completed'; the step that marks a
\* job adds none.
C26_QueueSerialFifo ==
  /\ [](Cardinality({i \in 1..Len(queue.jobs) :
                       queue.jobs[i].status = "processing"}) <= 1)
  /\ [][ LET old == queue.jobs
             new == queue'.jobs
         IN /\ Len(new) >= Len(old)
            /\ \A i \in 1..Len(old) :
                 /\ new[i].type = old[i].type
                 /\ new[i].data = old[i].data
                 /\ <<old[i].status, new[i].status>> \in
                      {<<"waiting", "waiting">>, <<"waiting", "processing">>,
                       <<"processing", "processing">>,
                       <<"processing", "completed">>,
                       <<"processing", "failed">>,
                       <<"completed", "completed">>, <<"failed", "failed">>}
            /\ \A i \in 1..Len(new) :
                 /\ i > Len(old) => new[i].status \in {"waiting", "processing"}
                 /\ JobStarts(i) =>
                      \A h \in 1..(i - 1) : old[h].status \in Finished
            /\ ops'[Worker].pc = "add" =>
                 \/ /\ ops[Worker].pc = "add"
                    /\ ops'[Worker] = ops[Worker]
                 \/ /\ ops[Worker].pc = "findOne"
                    /\ ops[Worker].ret.success
                    /\ ops[Worker].ret.processedRecords > 0
                    /\ Len(new) = Len(old) + 1
                    /\ new[Len(new)].type = "reconcile-records"
                    /\ new[Len(new)].status = "waiting"
                    /\ new[Len(new)].data.uploadJobId = ops[Worker].jobId
                    /\ \E h \in 1..Len(old) :
                         /\ old[h].type = "process-file"
                         /\ old[h].data.jobId = ops[Worker].jobId
                         /\ old[h].status = "processing"
                         /\ new[h].status = "processing"
            /\ \A i \in 1..Len(old) :
                 (old[i].status = "processing" /\ new[i].status \in Finished)
                   => /\ Len(new) = Len(old)
                      /\ ops[Worker].pc = "add" =>
                           /\ old[i].type = "process-file"
                           /\ new[i].status = "completed" ]_vars

\* The process-file job of J1 has added its reconcile-records job and has
\* then been marked; a process-file job added while the add of line 43 was
\* awaited waits behind that job, and the queue is free until the timer
\* fires.
C26_Witness ==
  /\ Len(queue.jobs) = 3
  /\ queue.jobs[1].type = "process-file"
  /\ queue.jobs[1].status = "completed"
  /\ queue.jobs[2].type = "reconcile-records"
  /\ queue.jobs[2].data = [uploadJobId |-> queue.jobs[1].data.jobId,
                           userId |-> "U1"]
  /\ queue.jobs[2].status = "waiting"
  /\ queue.jobs[3].type = "process-file"
  /\ queue.jobs[3].status = "waiting"
  /\ ~queue.processing
  /\ queue.timers = 1

\* C27: every job added to SimpleQueue ends 'completed' or 'failed' when
\* the work of each job terminates: a job that throws becomes 'failed',
\* stays so (no retry) and the jobs after it are still run; a job added
\* while another is processed, or in the pause after one, does not stay
\* 'waiting'.
C27_EveryJobFinishes ==
  /\ [](Len(queue.jobs) <= 2 * MaxJobs)
  /\ \A i \in 1..(2 * MaxJobs) :
       (Len(queue.jobs) >= i) ~>
         (Len(queue.jobs) >= i /\ queue.jobs[i].status \in Finished)
  /\ [][ \A i \in 1..Len(queue.jobs) :
          /\ queue.jobs[i].status = "failed"
               => queue'.jobs[i].status = "failed"
          /\ (queue.jobs[i].status = "processing"
                /\ queue'.jobs[i].status \in Finished)
               => /\ ops[Worker].pc = "failed"
                       => queue'.jobs[i].status = "failed"
                  /\ queue'.jobs[i].status = "completed"
                       => ops[Worker].pc \in {"done", "findOne", "add"} ]_vars

\* The first job threw, and the jobs added after it have been run.
C27_Witness ==
  /\ Len(queue.jobs) = 3
  /\ queue.jobs[1].status = "failed"
  /\ queue.jobs[2].status = "completed"
  /\ queue.jobs[3].status = "completed"
  /\ queue.jobs[3].type = "reconcile-records"
  /\ ~queue.processing

(***************************************************************************)
(* Concurrent manual resolutions: the request handlers of                  *)
(* PUT /results/:id/resolve run resolveManually in any interleaving, two   *)
(* calls in all, on the result of one reconciliation run of user U1.       *)
(***************************************************************************)
\* The resolutions of the concurrent calls supply no system record.
\* resolves starts two below MaxResolves, so that two calls can begin.
InitResolveRace ==
  /\ records \in {s \in ResolveStores :
                    Len(SelectSeq(s, LAMBDA r : ~r.isSystemRecord)) = 1}
  /\ LET uploadJobId == IdArg("ObjectId", "J1")
         created ==
           newReconciliationResult(
             1, records[1],
             duplicateCountOf(findDuplicates(uploadJobId), records[1]),
             findSystemMatches(records[1]), uploadJobId)
     IN /\ results = <<created>>
        /\ auditLog = <<reconcileAuditEntry(created, "U1")>>
  /\ ops = [p \in Procs |-> IdleOp]
  /\ resolves = MaxResolves - 2
  /\ call = NoCall
  /\ uploadJobs = StoredJobs
  /\ queue = IdleQueue
  /\ files = {}

NextResolveRace ==
  \E p \in Procs :
    \/ \E id \in 1..Len(results),
          resolution \in {r \in Resolutions : r.systemRecordId = NoId} :
         ResolveStart(p, id, resolution, "U2")
    \/ ResolveLoad(p)
    \/ ResolveSave(p)
    \/ ResolveAudit(p)
    \/ ResolveFail(p)

SpecResolveRace == InitResolveRace /\ [][NextResolveRace]_vars

\* The status, override flag and notes of a stored result.
StoredValue(r) ==
  [matchStatus |-> r.matchStatus,
   isManuallyResolved |-> r.isManuallyResolved,
   notes |-> r.notes]

\* Entries j < k are consecutive 'resolve' entries of one result.
ConsecutiveResolves(j, k) ==
  /\ j < k
  /\ auditLog[j].action = "resolve"
  /\ k \in ResolveEntriesOf(auditLog, auditLog[j].entityId)
  /\ \A m \in ResolveEntriesOf(auditLog, auditLog[j].entityId) :
       m <= j \/ m >= k

\* C28: in any interleaving of resolveManually calls on one result, the
\* oldValue of each 'resolve' entry is the result's status, override flag
\* and notes as stored just before the update of that entry was persisted;
\* so of two consecutive 'resolve' entries of a result the later one's
\* oldValue equals the earlier one's newValue on those three fields.
C28_OldValueIsStoredValue ==
  /\ [][ \A p \in Procs :
          /\ Saving(p) =>
               ops[p].oldValue = StoredValue(results[ops[p].reconciliationId])
          /\ (ops[p].kind = "resolve" /\ ops[p].pc = "log"
                 /\ ops'[p].pc = "done") =>
               auditLog'[Len(auditLog')].oldValue = ops[p].oldValue ]_vars
  /\ [](\A j \in 1..Len(auditLog) : \A k \in 1..Len(auditLog) :
          ConsecutiveResolves(j, k) =>
            \A f \in {"matchStatus", "isManuallyResolved", "notes"} :
              auditLog[k].oldValue[f] = auditLog[j].newValue[f])

(***************************************************************************)
(* Status against candidates, and the amount's part of the score           *)
(***************************************************************************)
\* C29: the result created for a non-duplicate uploaded record is
\* 'not_matched' exactly when findSystemMatches returned no candidate: a
\* result with a system record has a score of at least 0.60 and status
\* 'partially_matched', and a 'not_matched' result has no system record
\* and no differences.
C29_NotMatchedIffNoCandidate ==
  \A p \in Procs :
    (JustSaved(p) /\ GroupSize(CurrentRecord(p)) = 1) =>
      LET r == SavedResult(p)
      IN /\ r.matchStatus = "not_matched" <=> ops[p].systemMatches = <<>>
         /\ r.systemRecordId # NoId =>
              /\ r.matchScore * 100 >= 60 * ScoreUnit
              /\ r.matchStatus = "partially_matched"
         /\ r.matchStatus = "not_matched" =>
              /\ r.systemRecordId = NoId
              /\ r.differences = <<>>

\* C30: the amount's part of the score is 1 whenever the two amounts are
\* equal, and is never 1 when |a - b| exceeds 2 x tolerance x
\* max(|a|, |b|), for zero and negative amounts too.
C30_AmountCloseness ==
  call.fn = "calculateMatchScore" =>
    LET a == call.u.amount
        b == call.s.amount
        points == AmountPointsIn(call.ret, call.u, call.s)
    IN /\ a = b => points = FullWeight
       /\ Abs(a - b) * TolDen > 2 * TolNum * Max(Abs(a), Abs(b))
            => points # FullWeight

====
